---- MODULE Spec2Model ----
(***************************************************************************)
(* Model of meateam/download-service: the chunked download of an S3 object *)
(* over a server-streaming gRPC call.                                      *)
(*                                                                         *)
(* Two implementations of Download live in the repository and both are     *)
(* modelled; a call runs one of them (impl):                               *)
(*   "Service"          download.Service.Download   src/download/download.go *)
(*   "DownloadService"  main.DownloadService.Download   src/download.go    *)
(* They differ in one place: the first returns the error of stream.Send,   *)
(* the second drops it and goes on with the next part.                     *)
(*                                                                         *)
(* Byte strings are kept as sequences of runs: the object's byte at offset *)
(* i is identified with i, and the run [from |-> a, to |-> b] stands for   *)
(* the bytes a..b of the object, so a gap, an overlap or a reordering of   *)
(* ranges is a different byte string.  PartSize keeps its value of 5 MiB.  *)
(***************************************************************************)
EXTENDS Integers, Sequences, FiniteSets, TLC

\* PartSize = 5 << 20
PartSize == 5242880

\* file = make([]byte, 2<<20): the object the tests store.
TestFileSize == 2097152

\* Objects of up to MaxParts full parts are stored.
MaxParts == 3

\* The sizes the stored object may have: every multiple of PartSize up to
\* MaxParts parts, one byte less and one byte more, and the tests' object.
Sizes ==
    { s \in { k * PartSize + d : k \in 0..MaxParts, d \in {-1, 0, 1} } :
        s >= 0 /\ s <= MaxParts * PartSize }
    \cup {TestFileSize}

\* The concurrent calls the gRPC server is handling.
Calls == {"c1", "c2"}

Impls == {"Service", "DownloadService"}

\* The store holds one bucket with one object, as the tests set it up.
TestBucket == "testbucket"
TestKey == "test.txt"
BucketNames == {"", TestBucket, "nobucket"}
KeyNames == {"", TestKey, "missing.txt"}

\* The requests a client sends: the stored object, a missing key, a missing
\* bucket, no key, no bucket, neither.
Requests ==
    { r \in [bucket : BucketNames, key : KeyNames] :
        \/ r.bucket = TestBucket
        \/ r.key = TestKey
        \/ (r.bucket = "" /\ r.key = "") }

VARIABLES
    objectSize,   \* the store: ContentLength of TestBucket/TestKey
    impl,         \* the implementation of Download the server registered
    req,          \* req[c]: the DownloadRequest, [bucket, key]
    pc,           \* pc[c]: where call c's handler stands
    cancelled,    \* cancelled[c]: stream.Context() is done
    local,        \* local[c]: the handler's local variables
    storeLog,     \* storeLog[c]: the s3Client calls the handler has issued
    sendLog,      \* sendLog[c]: the stream.Send calls the handler has issued
    result,       \* result[c]: what Download returned
    healthState,  \* the health server's status of the service ""
    monitor,      \* where the health check worker stands
    storeUp,      \* the store answers ListBuckets
    lastProbe,    \* how the worker's last completed ListBuckets ended
    checkReply,   \* what the last HealthCheck answered
    md,           \* md[c]: the incoming metadata of call c
    method,       \* method[c]: info.FullMethod of call c
    decider,      \* the payload logging decider the server was built with
    ipc,          \* ipc[c]: where call c stands in the interceptor chain
    entry,        \* the "trace.id" field of the shared *logrusEntry
    traceFields,  \* traceFields[c]: traceIDFields["trace.id"] of call c
    callEntry,    \* callEntry[c]: the "trace.id" of the call's own logger
    wrapped,      \* wrapped[c]: the payload interceptor logs the call
    lines,        \* lines[c]: the log lines emitted for call c
    hout,         \* hout[c]: what the wrapped handler returned
    ret,          \* ret[c]: what the chain returned to the gRPC server
    inbox,        \* what the client's stream delivers: chunks, then its end
    reader,       \* what the StreamReadCloser has done so far
    lastRead,     \* the last call of StreamReadCloser.Read and its result
    phase,        \* how far the server's start-up has come
    startErr,     \* the step of the start-up that failed
    plan          \* the int64 variables of Download's arithmetic

\* The state of the Download calls.
downloadVars ==
    <<objectSize, impl, req, pc, cancelled, local, storeLog, sendLog, result>>

\* The state of the health server and of its worker.
healthVars == <<healthState, monitor, storeUp, lastProbe, checkReply>>

\* The state of the logging interceptors.
logVars ==
    <<md, method, decider, ipc, entry, traceFields, callEntry, wrapped, lines,
      hout, ret>>

\* The state of a client's StreamReadCloser.
readerVars == <<inbox, reader, lastRead>>

\* The state of the process' start-up.
startVars == <<phase, startErr>>

\* The part arithmetic at the width of int64.
planVars == <<plan>>

vars == <<downloadVars, healthVars, logVars, readerVars, startVars, planVars>>

----------------------------------------------------------------------------
\* Byte strings

NoBytes == [from |-> 0, to |-> -1]

RunLen(r) == IF r.to < r.from THEN 0 ELSE r.to - r.from + 1

\* append(fileFromStream, ret.GetFile()...): bytes appended to a byte string;
\* a run that continues the last one extends it.
AppendBytes(bs, r) ==
    IF RunLen(r) = 0 THEN bs
    ELSE IF Len(bs) > 0 /\ bs[Len(bs)].to + 1 = r.from
         THEN [bs EXCEPT ![Len(bs)] = [from |-> bs[Len(bs)].from, to |-> r.to]]
         ELSE Append(bs, r)

RECURSIVE ConcatFrom(_, _, _)
ConcatFrom(chunks, i, acc) ==
    IF i > Len(chunks) THEN acc
    ELSE ConcatFrom(chunks, i + 1, AppendBytes(acc, chunks[i].file))

\* The payloads of chunks, concatenated in order.
Concat(chunks) == ConcatFrom(chunks, 1, <<>>)

\* The stored object's bytes.
ObjectBytes(S) == IF S = 0 THEN <<>> ELSE <<[from |-> 0, to |-> S - 1]>>

RECURSIVE SumLen(_, _)
SumLen(chunks, i) ==
    IF i > Len(chunks) THEN 0 ELSE RunLen(chunks[i].file) + SumLen(chunks, i + 1)

----------------------------------------------------------------------------
\* Errors.  code is what status.Code(err) reports to the gRPC peer: an error
\* made by fmt.Errorf carries no gRPC status, which is code Unknown.

NoError == [msg |-> "", cause |-> "", part |-> -1, code |-> "OK"]
Pending == [msg |-> "pending", cause |-> "", part |-> -1, code |-> ""]

ErrKeyRequired ==
    [msg |-> "key is required", cause |-> "", part |-> -1, code |-> "Unknown"]

ErrBucketRequired ==
    [msg |-> "bucket is required", cause |-> "", part |-> -1, code |-> "Unknown"]

\* fmt.Errorf("failed to download object %s/%s: %v", bucket, key, err)
ErrDownloadObject(cause) ==
    [msg |-> "failed to download object", cause |-> cause, part |-> -1,
     code |-> "Unknown"]

\* fmt.Errorf("failed to download part %d: %v", currentPart, err)
ErrDownloadPart(part, cause) ==
    [msg |-> "failed to download part", cause |-> cause, part |-> part,
     code |-> "Unknown"]

\* The error stream.Send returned: a gRPC status error of the transport.
ErrSend(code) == [msg |-> "send", cause |-> "", part |-> -1, code |-> code]

IsError(r) == r # NoError /\ r # Pending

----------------------------------------------------------------------------
\* The object store, as s3Client sees it: the store the tests run against,
\* which serves a GetObject by its Range header (PartNumber, which Download
\* sets to currentPart beside it, does not change the bytes served) and whose
\* contents do not change while the calls run.

Exists(bucket, key) == bucket = TestBucket /\ key = TestKey

\* HeadObjectWithContext fails with: NotFound for a missing key or bucket
\* (a 404 without body), RequestCanceled when the context is done,
\* RequestError for a transient failure.
HeadCauses(c) ==
    (IF Exists(req[c].bucket, req[c].key) THEN {} ELSE {"NotFound"})
        \cup {"RequestError"}
        \cup (IF cancelled[c] THEN {"RequestCanceled"} ELSE {})

\* GetObject with "Range: bytes=a-b" answers the bytes a..min(b, S-1) of the
\* object (a last-byte-pos past the end is cut to the end), and refuses a
\* first-byte-pos past the end or a range whose end is before its start.
GetRange(S, a, b) ==
    IF a >= S \/ b < a THEN NoBytes
    ELSE [from |-> a, to |-> IF b > S - 1 THEN S - 1 ELSE b]

RangeSatisfiable(S, a, b) == a < S /\ a <= b

----------------------------------------------------------------------------
\* Download's arithmetic

\* Mutant: the remainder is forgotten.
TotalPartsFloor(S) == S \div PartSize

\* Mutant: one part more in every case.
TotalPartsRoundUp(S) == (S \div PartSize) + 1

\* totalParts := ContentLength / PartSize; if ContentLength % PartSize > 0
\* { totalParts++ }
TotalParts(S) ==
    IF S % PartSize > 0 THEN (S \div PartSize) + 1 ELSE S \div PartSize

\* Mutant: consecutive parts overlap by one byte.
RangeStartOverlap(currentPart) == currentPart * (PartSize - 1)

\* rangeStart := currentPart * PartSize
RangeStart(currentPart) == currentPart * PartSize

\* Mutant: every part is requested up to the object's end.
RangeEndWholeObject(rangeStart, S) == S - 1

\* rangeEnd := rangeStart + PartSize - 1; if rangeEnd > ContentLength
\* { rangeEnd = ContentLength - 1 }
RangeEnd(rangeStart, S) ==
    IF rangeStart + PartSize - 1 > S THEN S - 1 ELSE rangeStart + PartSize - 1

----------------------------------------------------------------------------
\* Download's arithmetic at the width of its variables.  ContentLength,
\* totalParts, currentPart, rangeStart and rangeEnd are int64, and Go's
\* integer arithmetic wraps around.  An int64 is written as its 64 bits in
\* two's complement, cut into limbs of 20 bits, least significant first:
\* <<l0, l1, l2, l3>> is l0 + l1 * 2^20 + l2 * 2^40 + l3 * 2^60 modulo 2^64,
\* and the limb l3 holds the four highest bits.

\* 1 << 20, PartSize being 5 << 20.
Limb == PartSize \div 5

\* The values of the highest limb.
TopLimb == 2 ^ (64 - 3 * 20)

\* The int64 of a small non-negative number.
Int64Of(n) == <<n % Limb, n \div Limb, 0, 0>>

\* math.MaxInt64
MaxInt64 == <<Limb - 1, Limb - 1, Limb - 1, (TopLimb \div 2) - 1>>

\* a + b on int64.
Add64(a, b) ==
    LET s0 == a[1] + b[1]
        s1 == a[2] + b[2] + (s0 \div Limb)
        s2 == a[3] + b[3] + (s1 \div Limb)
        s3 == a[4] + b[4] + (s2 \div Limb)
    IN  <<s0 % Limb, s1 % Limb, s2 % Limb, s3 % TopLimb>>

\* -a on int64.
Neg64(a) ==
    Add64(<<Limb - 1 - a[1], Limb - 1 - a[2], Limb - 1 - a[3],
            TopLimb - 1 - a[4]>>,
          Int64Of(1))

\* a - b on int64.
Sub64(a, b) == Add64(a, Neg64(b))

\* a < 0 on int64: the sign bit is set.
IsNeg64(a) == a[4] >= TopLimb \div 2

\* a < b on int64.
Lt64(a, b) ==
    IF IsNeg64(a) # IsNeg64(b) THEN IsNeg64(a)
    ELSE \/ a[4] < b[4]
         \/ a[4] = b[4] /\ a[3] < b[3]
         \/ a[4] = b[4] /\ a[3] = b[3] /\ a[2] < b[2]
         \/ a[4] = b[4] /\ a[3] = b[3] /\ a[2] = b[2] /\ a[1] < b[1]

\* a * PartSize on int64: a times 5, moved up by 20 bits.
MulPartSize64(a) ==
    LET m0 == a[1] * 5
        m1 == a[2] * 5 + (m0 \div Limb)
        m2 == a[3] * 5 + (m1 \div Limb)
    IN  <<0, m0 % Limb, m1 % Limb, m2 % TopLimb>>

\* S / PartSize on int64, for S >= 0: S moved down by 20 bits, divided by 5.
DivPartSize64(S) ==
    LET t3 == S[4]
        t2 == (t3 % 5) * Limb + S[3]
        t1 == (t2 % 5) * Limb + S[2]
    IN  <<t1 \div 5, t2 \div 5, t3 \div 5, 0>>

\* S % PartSize, for S >= 0: a number below PartSize.
ModPartSize64(S) ==
    LET t2 == (S[4] % 5) * Limb + S[3]
        t1 == (t2 % 5) * Limb + S[2]
    IN  (t1 % 5) * Limb + S[1]

\* totalParts := ContentLength / PartSize; if ContentLength % PartSize > 0
\* { totalParts++ }
TotalParts64(S) ==
    IF ModPartSize64(S) > 0
    THEN Add64(DivPartSize64(S), Int64Of(1)) ELSE DivPartSize64(S)

\* rangeStart := currentPart * PartSize
RangeStart64(currentPart) == MulPartSize64(currentPart)

\* rangeEnd := rangeStart + PartSize - 1; if rangeEnd > ContentLength
\* { rangeEnd = ContentLength - 1 }
RangeEnd64(rangeStart, S) ==
    LET rangeEnd == Add64(rangeStart, Int64Of(PartSize - 1))
    IN  IF Lt64(S, rangeEnd) THEN Sub64(S, Int64Of(1)) ELSE rangeEnd

\* The sizes HeadObject may report that the arithmetic is followed for: those
\* of Sizes, 2^40, 5 * 2^40 (the largest object of S3), 2^60, and sizes at
\* the end of int64: math.MaxInt64, the largest multiple of PartSize, and
\* their neighbours.
Sizes64 ==
    {Int64Of(s) : s \in Sizes}
        \cup {<<0, 0, 1, 0>>, <<0, 0, 5, 0>>, <<0, 0, 0, 1>>}
        \cup {Sub64(MaxInt64, Int64Of(k)) :
                k \in {0, 1,
                       ModPartSize64(MaxInt64) - 1,
                       ModPartSize64(MaxInt64),
                       ModPartSize64(MaxInt64) + 1,
                       ModPartSize64(MaxInt64) + PartSize}}

\* The arithmetic is not followed.
NoPlan ==
    [step |-> "idle", S |-> Int64Of(0), totalParts |-> Int64Of(0),
     currentPart |-> Int64Of(0), rangeStart |-> Int64Of(0),
     rangeEnd |-> Int64Of(0)]

InitPlanIdle == plan = NoPlan

\* HeadObjectWithContext has returned a ContentLength among sizes.
InitPlan(sizes) ==
    \E S \in sizes : plan = [NoPlan EXCEPT !.step = "head", !.S = S]

----------------------------------------------------------------------------

\* grpc.MaxRecvMsgSize(10<<20), the message size the server is built with.
MaxRecvMsgSize == 10485760

\* The bytes of the length n of a field, as a varint.
VarintLen(n) ==
    IF n < 128 THEN 1
    ELSE IF n < 16384 THEN 2
    ELSE IF n < 2097152 THEN 3
    ELSE IF n < 268435456 THEN 4
    ELSE 5

\* The size of the message stream.Send(&pb.DownloadResponse{File: partBytes})
\* puts on the wire for n bytes of File: the field's tag, its length and the
\* bytes; an empty File is left out of the message.
EncodedSize(n) == IF n = 0 THEN 0 ELSE 1 + VarintLen(n) + n

----------------------------------------------------------------------------

\* The trace header.  A header value is a text; what matters of it is whether
\* it has the form of a traceparent ("00-<trace id in hex>-<span id>-<flags>")
\* and the hex digits of its trace id.

HeaderValues ==
    { [form |-> "traceparent", hex |-> "0af7"],
      [form |-> "traceparent", hex |-> "B9C7"],
      [form |-> "traceparent", hex |-> "0000"],
      [form |-> "text", hex |-> ""] }

\* hex.Decode of the trace id's digits, in either case of the letters.
HexDecode(h) ==
    CASE h = "0af7" -> <<10, 247>>
      [] h = "B9C7" -> <<185, 199>>
      [] h = "0000" -> <<0, 0>>
      [] OTHER -> <<>>

\* TraceID.String(): the bytes in lower-case hex.
TraceString(id) ==
    CASE id = <<10, 247>> -> "0af7"
      [] id = <<185, 199>> -> "b9c7"
      [] id = <<0, 0>> -> "0000"
      [] OTHER -> ""

\* apmhttp.ParseTraceparentHeader: an error for a text that is no
\* traceparent and for a trace id of zeros, else the trace context.
ParseTraceparentHeader(v) ==
    IF v.form # "traceparent" \/ HexDecode(v.hex) = <<0, 0>>
    THEN [err |-> TRUE, Trace |-> <<>>]
    ELSE [err |-> FALSE, Trace |-> HexDecode(v.hex)]

\* metadata.FromIncomingContext(ctx) and md.Get(traceIDHeader): a context
\* without metadata, or metadata with the values of the header.
NoMetadata == [ok |-> FALSE, values |-> <<>>]

WithValues(vs) == [ok |-> TRUE, values |-> vs]

Metadatas ==
    {NoMetadata, WithValues(<<>>)}
        \cup { WithValues(<<v>>) : v \in HeaderValues }
        \cup { WithValues(<<v, w>>) : v, w \in HeaderValues }

\* The states of the trace header the interceptors are run with: no
\* metadata, no value, a malformed value, two values, and two valid ones.
TraceHeaderStates ==
    { NoMetadata,
      WithValues(<<>>),
      WithValues(<<[form |-> "text", hex |-> ""]>>),
      WithValues(<<[form |-> "traceparent", hex |-> "0af7"],
                   [form |-> "traceparent", hex |-> "B9C7"]>>),
      WithValues(<<[form |-> "traceparent", hex |-> "0af7"]>>),
      WithValues(<<[form |-> "traceparent", hex |-> "B9C7"]>>) }

\* Mutant: the first value is taken when the header has several.
ExtractTraceParentFirst(m) ==
    IF m.ok /\ Len(m.values) >= 1
    THEN LET traceCtx == ParseTraceparentHeader(m.values[1])
         IN  IF ~traceCtx.err THEN TraceString(traceCtx.Trace) ELSE ""
    ELSE ""

\* ExtractTraceParent(ctx), of a context whose incoming metadata is m.
ExtractTraceParent(m) ==
    IF m.ok /\ Len(m.values) = 1
    THEN LET traceCtx == ParseTraceparentHeader(m.values[1])
         IN  IF ~traceCtx.err THEN TraceString(traceCtx.Trace) ELSE ""
    ELSE ""

----------------------------------------------------------------------------
\* Methods and payload logging deciders

DownloadMethod == "/download.Download/Download"
HealthCheckMethod == "/grpc.health.v1.Health/Check"
HealthWatchMethod == "/grpc.health.v1.Health/Watch"

\* The methods the server registers: Download and Watch are server-streaming,
\* Check is unary.
Methods == {DownloadMethod, HealthCheckMethod, HealthWatchMethod}

IsStream(m) == m # HealthCheckMethod

\* DefaultServerPayloadLoggingDecider: return true
DefaultServerPayloadLoggingDecider(fullMethodName) == TRUE

\* Mutant: the comparison is the other way round.
IgnoreAllButMethod(fullIgnoredMethodName, fullMethodName) ==
    fullMethodName = fullIgnoredMethodName

\* IgnoreMethodServerPayloadLoggingDecider(fullIgnoredMethodName):
\* return fullMethodName != fullIgnoredMethodName
IgnoreMethodServerPayloadLoggingDecider(fullIgnoredMethodName, fullMethodName) ==
    fullMethodName # fullIgnoredMethodName

\* ilogger.IgnoreServerMethodsDecider(methods...): the decider of several
\* ignored methods.
IgnoreServerMethodsDecider(ignored, fullMethodName) ==
    \A m \in ignored : IgnoreMethodServerPayloadLoggingDecider(m, fullMethodName)

\* viper.SetDefault(configElasticAPMIgnoreURLS, "/grpc.health.v1.Health/Check")
ElasticAPMIgnoreURLS == HealthCheckMethod

\* serverLoggerInterceptor: ignorePayload, the decider of the server.
ServerDecider ==
    [kind |-> "IgnoreServerMethods",
     ignored |-> {DownloadMethod, ElasticAPMIgnoreURLS}]

\* The deciders a server is built with.
Deciders ==
    {[kind |-> "Default", ignored |-> {}], ServerDecider}
        \cup { [kind |-> "IgnoreMethod", ignored |-> {m}] : m \in Methods }

\* The decider d, called for a method.
Decide(d, fullMethodName) ==
    CASE d.kind = "Default" -> DefaultServerPayloadLoggingDecider(fullMethodName)
      [] d.kind = "IgnoreMethod" ->
            IgnoreMethodServerPayloadLoggingDecider(
                CHOOSE m \in d.ignored : TRUE, fullMethodName)
      [] OTHER -> IgnoreServerMethodsDecider(d.ignored, fullMethodName)

\* What a handler returns: the response of a unary call and nil, nil of a
\* streaming call, or an error by its status code.
HandlerOutcomes ==
    { [resp |-> "response", code |-> "OK"],
      [resp |-> "none", code |-> "OK"],
      [resp |-> "none", code |-> "Unknown"],
      [resp |-> "none", code |-> "Canceled"] }

NotReturned == [resp |-> "none", code |-> ""]

\* A log line: what it reports, the "trace.id" field it carries and its
\* level.
LeveledLine(what, trace, level) ==
    [line |-> what, trace |-> trace, level |-> level]

\* The request and payload lines are logged with Info.
Line(what, trace) == LeveledLine(what, trace, "info")

\* grpc_logrus.DefaultCodeToLevel, which the server hands to
\* grpc_logrus.WithLevels and which grpc_logrus uses when given no levels.
DefaultCodeToLevel(code) ==
    CASE code \in {"OK", "Canceled", "InvalidArgument", "NotFound",
                   "AlreadyExists", "Unauthenticated"} -> "info"
      [] code \in {"DeadlineExceeded", "PermissionDenied", "ResourceExhausted",
                   "FailedPrecondition", "Aborted", "OutOfRange",
                   "Unavailable"} -> "warning"
      [] OTHER -> "error"

\* The decider of grpc_logrus, asked whether the outcome of a call is
\* logged: the server built by serverLoggerInterceptor hands over
\* grpc_logrus.WithDecider(... ignorePayload(fullMethodName)); a server built
\* without that option logs the outcome of every call.
OutcomeLogged(d, fullMethodName) ==
    IF d = ServerDecider THEN Decide(d, fullMethodName) ELSE TRUE

\* The interceptors while Download runs for calls without metadata, on a
\* server built with one of the deciders ds: the request was logged, by the
\* payload interceptor too when the decider lets it in, and the handler has
\* not returned.
InitLogRunning(ds) ==
    /\ md = [c \in Calls |-> NoMetadata]
    /\ method = [c \in Calls |-> DownloadMethod]
    /\ decider \in ds
    /\ ipc = [c \in Calls |-> "handler"]
    /\ entry = ""
    /\ traceFields = [c \in Calls |-> ""]
    /\ callEntry = [c \in Calls |-> ""]
    /\ wrapped = [c \in Calls |-> Decide(decider, DownloadMethod)]
    /\ lines = [c \in Calls |->
                  {Line("request", "")}
                    \cup (IF Decide(decider, DownloadMethod)
                          THEN {Line("request payload", "")} ELSE {})]
    /\ hout = [c \in Calls |-> NotReturned]
    /\ ret = [c \in Calls |-> NotReturned]

\* The same on the server's own decider, which keeps the payload
\* interceptor out of Download.
InitLogIdle == InitLogRunning({ServerDecider})

----------------------------------------------------------------------------
\* The handler, step by step.  A step runs from one blocking call to the next.

InitLocal ==
    [totalSize |-> 0, totalParts |-> 0, currentPart |-> 0, rangeStart |-> 0,
     rangeEnd |-> 0, body |-> NoBytes, partBytes |-> NoBytes, openBodies |-> 0]

\* The calls as the gRPC server hands them to Download, for an object of one
\* of the sizes, one of the implementations and requests among rs.
InitDownload(sizes, impls, rs) ==
    /\ objectSize \in sizes
    /\ impl \in impls
    /\ req \in [Calls -> rs]
    /\ pc = [c \in Calls |-> "start"]
    /\ cancelled = [c \in Calls |-> FALSE]
    /\ local = [c \in Calls |-> InitLocal]
    /\ storeLog = [c \in Calls |-> <<>>]
    /\ sendLog = [c \in Calls |-> <<>>]
    /\ result = [c \in Calls |-> Pending]

\* health.NewServer() registers the service "" as SERVING, and
\* go healthCheckWorker(healthServer) starts the worker, which calls
\* ListBuckets at once; no HealthCheck has been answered yet.
\* The chunks Download sends for an object of S bytes: part k - 1 is the
\* k-th, from k - 1 times PartSize on, PartSize bytes long or up to the
\* object's end.
ChunksOf(S) ==
    [k \in 1..TotalParts(S) |->
        [from |-> RangeStart(k - 1),
         to |-> IF RangeStart(k - 1) + PartSize > S
                THEN S - 1 ELSE RangeStart(k - 1) + PartSize - 1]]

\* Error values.  id tells one value from another, as == on Go's error
\* interface does for errors made by fmt.Errorf and errors.New: two calls
\* make two values, whatever their messages.
Nil == [id |-> "nil", msg |-> ""]

\* var ErrBufferLength error = fmt.Errorf("len(p) is required to be at
\* least %d", PartSize)
ErrBufferLength ==
    [id |-> "download.ErrBufferLength",
     msg |-> "len(p) is required to be at least 5242880"]

\* The value of fmt.Errorf("len(p) is required to be at least %d", PartSize)
\* in Read.
ErrReadBuffer ==
    [id |-> "fmt.Errorf in Read",
     msg |-> "len(p) is required to be at least 5242880"]

\* io.EOF, and the status error of a stream that broke.
EOF == [id |-> "io.EOF", msg |-> "EOF"]
ErrStream == [id |-> "status", msg |-> "Unavailable"]

\* What a client's stream delivers: the chunks of an object, then io.EOF or
\* an error.
Inboxes == [chunks : {ChunksOf(S) : S \in Sizes}, end : {EOF, ErrStream}]

\* The chunks of an object of S bytes cut every n bytes.  How long a chunk
\* is, is the server's choice: the DownloadService that fetches by
\* PartNumber sends what the downloader has written into a buffer that grows
\* past PartSize.  Read is given the stream, not the server.
PartsOf(S, n) ==
    [k \in 1..((S + n - 1) \div n) |->
        [from |-> (k - 1) * n,
         to |-> IF k * n > S THEN S - 1 ELSE k * n - 1]]

\* What a pb.Download_DownloadClient may deliver: the streams of Download,
\* and streams whose chunks are one byte longer than PartSize.
StreamInboxes ==
    Inboxes \cup
    [chunks : {PartsOf(S, PartSize + 1) : S \in Sizes \ {0}},
     end : {EOF, ErrStream}]

\* len(p) of the buffers Read is called with.
BufLens == {0, 1, PartSize - 1, PartSize, PartSize + 1}

NoRead == [len |-> -1, n |-> 0, err |-> Nil, p |-> NoBytes, recv |-> FALSE]

NewReader == [pos |-> 0, recvs |-> 0, reads |-> 0, got |-> <<>>]

\* NewStreamReadCloser(stream), before its first Read.
InitReader(inboxes) ==
    /\ inbox \in inboxes
    /\ reader = NewReader
    /\ lastRead = NoRead

\* No client's reader is followed.
InitReaderIdle == InitReader({[chunks |-> <<>>, end |-> EOF]})

\* The server is up: NewServer has returned and Serve is serving.
InitServing == phase = "serving" /\ startErr = "none"

NoReply == [status |-> "none", probe |-> "none"]

InitHealth(up) ==
    /\ healthState = "SERVING"
    /\ monitor = "probing"
    /\ storeUp \in up
    /\ lastProbe = "none"
    /\ checkReply = NoReply

\* Spec follows the Download calls alone, from the handler's entry on: the
\* health worker and the logging interceptors take no step in it.
Init ==
    /\ InitDownload(Sizes, Impls, Requests)
    /\ InitHealth({TRUE})
    /\ InitLogIdle
    /\ InitReaderIdle
    /\ InitServing
    /\ InitPlanIdle

\* return err
Return(c, err) ==
    /\ pc' = [pc EXCEPT ![c] = "done"]
    /\ result' = [result EXCEPT ![c] = err]

\* The last call of a log returns in state st.
Settle(log, st) == [log EXCEPT ![Len(log)].state = st]

\* The server, once it serves, dispatches the call to Download:
\* req.GetKey(), req.GetBucket(), the two checks, and the call of
\* HeadObjectWithContext.
Validate(c) ==
    /\ phase = "serving"
    /\ pc[c] = "start"
    /\ IF req[c].key = ""
       THEN Return(c, ErrKeyRequired) /\ UNCHANGED storeLog
       ELSE IF req[c].bucket = ""
       THEN Return(c, ErrBucketRequired) /\ UNCHANGED storeLog
       ELSE /\ storeLog' = [storeLog EXCEPT ![c] =
                   Append(@, [op |-> "HeadObject", part |-> -1, rangeStart |-> -1,
                              rangeEnd |-> -1, state |-> "inflight"])]
            /\ pc' = [pc EXCEPT ![c] = "head"]
            /\ UNCHANGED result
    /\ UNCHANGED <<healthVars, logVars, readerVars, startVars, planVars>>
    /\ UNCHANGED <<objectSize, impl, req, cancelled, local, sendLog>>

\* Mutant: a probe of Download that fails marks the service NOT_SERVING.
HeadFailsNotServing(c) ==
    /\ pc[c] = "head"
    /\ \E cause \in HeadCauses(c) :
          Return(c, ErrDownloadObject(cause))
    /\ storeLog' = [storeLog EXCEPT ![c] = Settle(@, "failed")]
    /\ healthState' = "NOT_SERVING"
    /\ UNCHANGED <<monitor, storeUp, lastProbe, checkReply, logVars, readerVars,
                   startVars, planVars>>
    /\ UNCHANGED <<objectSize, impl, req, cancelled, local, sendLog>>

\* HeadObjectWithContext returns an error: return fmt.Errorf(...).
HeadFails(c) ==
    /\ pc[c] = "head"
    /\ \E cause \in HeadCauses(c) :
          Return(c, ErrDownloadObject(cause))
    /\ storeLog' = [storeLog EXCEPT ![c] = Settle(@, "failed")]
    /\ UNCHANGED <<healthVars, logVars, readerVars, startVars, planVars>>
    /\ UNCHANGED <<objectSize, impl, req, cancelled, local, sendLog>>

\* HeadObjectWithContext returns the object's details: totalParts is
\* computed and the loop starts with currentPart = 0.
HeadSucceeds(c) ==
    /\ pc[c] = "head"
    /\ Exists(req[c].bucket, req[c].key)
    /\ ~cancelled[c]
    /\ storeLog' = [storeLog EXCEPT ![c] = Settle(@, "ok")]
    /\ local' = [local EXCEPT ![c].totalSize = objectSize,
                              ![c].totalParts = TotalParts(objectSize),
                              ![c].currentPart = 0]
    /\ pc' = [pc EXCEPT ![c] = "loop"]
    /\ UNCHANGED <<healthVars, logVars, readerVars, startVars, planVars>>
    /\ UNCHANGED <<objectSize, impl, req, cancelled, sendLog, result>>

\* Mutant: the object's details are asked for again before every part.
LoopStepReprobe(c) ==
    /\ pc[c] = "loop"
    /\ IF local[c].currentPart < local[c].totalParts
       THEN LET rs == RangeStart(local[c].currentPart)
                re == RangeEnd(rs, local[c].totalSize)
            IN  /\ local' = [local EXCEPT ![c].rangeStart = rs, ![c].rangeEnd = re]
                /\ storeLog' = [storeLog EXCEPT ![c] =
                       @ \o <<[op |-> "HeadObject", part |-> -1, rangeStart |-> -1,
                               rangeEnd |-> -1, state |-> "ok"],
                              [op |-> "GetObject", part |-> local[c].currentPart,
                               rangeStart |-> rs, rangeEnd |-> re,
                               state |-> "inflight"]>>]
                /\ pc' = [pc EXCEPT ![c] = "fetch"]
                /\ UNCHANGED result
       ELSE Return(c, NoError) /\ UNCHANGED <<local, storeLog>>
    /\ UNCHANGED <<healthVars, logVars, readerVars, startVars, planVars>>
    /\ UNCHANGED <<objectSize, impl, req, cancelled, sendLog>>

\* HeadObjectWithContext returns details without ContentLength: the pointer
\* is nil, *objectHead.ContentLength panics in the handler's goroutine, no
\* interceptor of the stream chain recovers, and the process ends with every
\* call it was handling.
HeadSucceedsNoSize(c) ==
    /\ pc[c] = "head"
    /\ Exists(req[c].bucket, req[c].key)
    /\ ~cancelled[c]
    /\ storeLog' = [storeLog EXCEPT ![c] = Settle(@, "nosize")]
    /\ pc' = [d \in Calls |-> "crashed"]
    /\ phase' = "exited"
    /\ UNCHANGED <<healthVars, logVars, readerVars, startErr, planVars>>
    /\ UNCHANGED <<objectSize, impl, req, cancelled, local, sendLog, result>>

\* The loop's test; inside the loop the range of the part and the call of
\* GetObjectWithContext, after the loop return nil.
LoopStep(c) ==
    /\ pc[c] = "loop"
    /\ IF local[c].currentPart < local[c].totalParts
       THEN LET rs == RangeStart(local[c].currentPart)
                re == RangeEnd(rs, local[c].totalSize)
            IN  /\ local' = [local EXCEPT ![c].rangeStart = rs, ![c].rangeEnd = re]
                /\ storeLog' = [storeLog EXCEPT ![c] =
                       Append(@, [op |-> "GetObject", part |-> local[c].currentPart,
                                  rangeStart |-> rs, rangeEnd |-> re,
                                  state |-> "inflight"])]
                /\ pc' = [pc EXCEPT ![c] = "fetch"]
                /\ UNCHANGED result
       ELSE Return(c, NoError) /\ UNCHANGED <<local, storeLog>>
    /\ UNCHANGED <<healthVars, logVars, readerVars, startVars, planVars>>
    /\ UNCHANGED <<objectSize, impl, req, cancelled, sendLog>>

\* GetObjectWithContext fails with: InvalidRange for a range the object
\* cannot satisfy, RequestCanceled when the context is done, RequestError
\* for a transient failure.
FetchCauses(c) ==
    (IF RangeSatisfiable(objectSize, local[c].rangeStart, local[c].rangeEnd)
     THEN {} ELSE {"InvalidRange"})
        \cup {"RequestError"}
        \cup (IF cancelled[c] THEN {"RequestCanceled"} ELSE {})

\* Mutant: a part that cannot be fetched is skipped.
FetchFailsSkip(c) ==
    /\ pc[c] = "fetch"
    /\ storeLog' = [storeLog EXCEPT ![c] = Settle(@, "failed")]
    /\ local' = [local EXCEPT ![c].currentPart = @ + 1]
    /\ pc' = [pc EXCEPT ![c] = "loop"]
    /\ UNCHANGED <<healthVars, logVars, readerVars, startVars, planVars>>
    /\ UNCHANGED <<objectSize, impl, req, cancelled, sendLog, result>>

\* Mutant: a fetch that failed is tried again.
FetchFailsRetry(c) ==
    /\ pc[c] = "fetch"
    /\ storeLog' = [storeLog EXCEPT ![c] = Settle(@, "failed")]
    /\ pc' = [pc EXCEPT ![c] = "loop"]
    /\ UNCHANGED <<healthVars, logVars, readerVars, startVars, planVars>>
    /\ UNCHANGED <<objectSize, impl, req, cancelled, local, sendLog, result>>

\* GetObjectWithContext returns an error: return fmt.Errorf(...).
FetchFails(c) ==
    /\ pc[c] = "fetch"
    /\ \E cause \in FetchCauses(c) :
          Return(c, ErrDownloadObject(cause))
    /\ storeLog' = [storeLog EXCEPT ![c] = Settle(@, "failed")]
    /\ UNCHANGED <<healthVars, logVars, readerVars, startVars, planVars>>
    /\ UNCHANGED <<objectSize, impl, req, cancelled, local, sendLog>>

\* GetObjectWithContext returns the part's output with its Body, an open
\* io.ReadCloser: openBodies counts the bodies the call has got and not
\* closed, and no statement of Download calls Close on one.
FetchSucceeds(c) ==
    /\ pc[c] = "fetch"
    /\ RangeSatisfiable(objectSize, local[c].rangeStart, local[c].rangeEnd)
    /\ ~cancelled[c]
    /\ storeLog' = [storeLog EXCEPT ![c] = Settle(@, "ok")]
    /\ local' = [local EXCEPT ![c].body =
                    GetRange(objectSize, local[c].rangeStart, local[c].rangeEnd),
                              ![c].openBodies = @ + 1]
    /\ pc' = [pc EXCEPT ![c] = "drain"]
    /\ UNCHANGED <<healthVars, logVars, readerVars, startVars, planVars>>
    /\ UNCHANGED <<objectSize, impl, req, cancelled, sendLog, result>>

\* ioutil.ReadAll(objectPartOutput.Body) fails: return fmt.Errorf(...).
DrainFails(c) ==
    /\ pc[c] = "drain"
    /\ \E cause \in {"ReadError"} \cup
                    (IF cancelled[c] THEN {"ContextCanceled"} ELSE {}) :
          Return(c, ErrDownloadPart(local[c].currentPart, cause))
    /\ UNCHANGED <<healthVars, logVars, readerVars, startVars, planVars>>
    /\ UNCHANGED <<objectSize, impl, req, cancelled, local, storeLog, sendLog>>

\* ioutil.ReadAll returns the part's bytes.
DrainSucceeds(c) ==
    /\ pc[c] = "drain"
    /\ ~cancelled[c]
    /\ local' = [local EXCEPT ![c].partBytes = local[c].body,
                              ![c].body = NoBytes]
    /\ pc' = [pc EXCEPT ![c] = "drained"]
    /\ UNCHANGED <<healthVars, logVars, readerVars, startVars, planVars>>
    /\ UNCHANGED <<objectSize, impl, req, cancelled, storeLog, sendLog, result>>

\* Mutant: the chunk is sent in the background and the loop goes on at once.
SendIssueAsync(c) ==
    /\ pc[c] = "drained"
    /\ sendLog' = [sendLog EXCEPT ![c] =
           Append(@, [part |-> local[c].currentPart, file |-> local[c].partBytes,
                      state |-> "inflight"])]
    /\ local' = [local EXCEPT ![c].currentPart = @ + 1]
    /\ pc' = [pc EXCEPT ![c] = "loop"]
    /\ UNCHANGED <<healthVars, logVars, readerVars, startVars, planVars>>
    /\ UNCHANGED <<objectSize, impl, req, cancelled, storeLog, result>>

\* stream.Send(&pb.DownloadResponse{File: partBytes}) is called.
SendIssue(c) ==
    /\ pc[c] = "drained"
    /\ sendLog' = [sendLog EXCEPT ![c] =
           Append(@, [part |-> local[c].currentPart, file |-> local[c].partBytes,
                      state |-> "inflight"])]
    /\ pc' = [pc EXCEPT ![c] = "send"]
    /\ UNCHANGED <<healthVars, logVars, readerVars, startVars, planVars>>
    /\ UNCHANGED <<objectSize, impl, req, cancelled, local, storeLog, result>>

\* Mutant: the bytes of the part sent are kept while the next is fetched.
SendSucceedsKeepsPart(c) ==
    /\ pc[c] = "send"
    /\ ~cancelled[c]
    /\ sendLog' = [sendLog EXCEPT ![c] = Settle(@, "ok")]
    /\ local' = [local EXCEPT ![c].currentPart = @ + 1]
    /\ pc' = [pc EXCEPT ![c] = "loop"]
    /\ UNCHANGED <<healthVars, logVars, readerVars, startVars, planVars>>
    /\ UNCHANGED <<objectSize, impl, req, cancelled, storeLog, result>>

\* Mutant: the loop does not move on to the next part.
SendSucceedsSamePart(c) ==
    /\ pc[c] = "send"
    /\ ~cancelled[c]
    /\ sendLog' = [sendLog EXCEPT ![c] = Settle(@, "ok")]
    /\ local' = [local EXCEPT ![c].partBytes = NoBytes]
    /\ pc' = [pc EXCEPT ![c] = "loop"]
    /\ UNCHANGED <<healthVars, logVars, readerVars, startVars, planVars>>
    /\ UNCHANGED <<objectSize, impl, req, cancelled, storeLog, result>>

\* Mutant: currentPart is kept in the Service, one for all calls.
SendSucceedsSharedPart(c) ==
    /\ pc[c] = "send"
    /\ ~cancelled[c]
    /\ sendLog' = [sendLog EXCEPT ![c] = Settle(@, "ok")]
    /\ local' = [d \in Calls |->
                    IF d = c
                    THEN [local[d] EXCEPT !.currentPart = @ + 1,
                                          !.partBytes = NoBytes]
                    ELSE [local[d] EXCEPT !.currentPart = local[c].currentPart + 1]]
    /\ pc' = [pc EXCEPT ![c] = "loop"]
    /\ UNCHANGED <<healthVars, logVars, readerVars, startVars, planVars>>
    /\ UNCHANGED <<objectSize, impl, req, cancelled, storeLog, result>>

\* stream.Send returns nil: currentPart++ and the loop goes on.
SendSucceeds(c) ==
    /\ pc[c] = "send"
    /\ ~cancelled[c]
    /\ sendLog' = [sendLog EXCEPT ![c] = Settle(@, "ok")]
    /\ local' = [local EXCEPT ![c].currentPart = @ + 1, ![c].partBytes = NoBytes]
    /\ pc' = [pc EXCEPT ![c] = "loop"]
    /\ UNCHANGED <<healthVars, logVars, readerVars, startVars, planVars>>
    /\ UNCHANGED <<objectSize, impl, req, cancelled, storeLog, result>>

\* stream.Send fails once the stream is done, that is once the call is
\* cancelled, its deadline has expired or the peer is gone (each of them ends
\* stream.Context()); the error is a status of the transport.
SendCodes == {"Canceled", "Unavailable"}

\* Service.Download: if err := stream.Send(...); err != nil { the error is
\* logged with the trace id; return err }
OnSendErrorService(c, err) == Return(c, err) /\ UNCHANGED local

\* DownloadService.Download: stream.Send(...) is a statement, its error is
\* dropped: currentPart++ and the loop goes on.
OnSendErrorDownloadService(c, err) ==
    /\ local' = [local EXCEPT ![c].currentPart = @ + 1,
                              ![c].partBytes = NoBytes]
    /\ pc' = [pc EXCEPT ![c] = "loop"]
    /\ UNCHANGED result

\* What the handler does with the error of stream.Send.
OnSendError(c, err) ==
    IF impl = "Service"
    THEN OnSendErrorService(c, err)
    ELSE OnSendErrorDownloadService(c, err)

\* stream.Send returns an error.
SendFails(c) ==
    /\ pc[c] = "send"
    /\ cancelled[c]
    /\ sendLog' = [sendLog EXCEPT ![c] = Settle(@, "failed")]
    /\ \E code \in SendCodes : OnSendError(c, ErrSend(code))
    /\ UNCHANGED <<healthVars, logVars, readerVars, startVars, planVars>>
    /\ UNCHANGED <<objectSize, impl, req, cancelled, storeLog>>

\* The client cancels the call, its deadline expires or the peer goes away:
\* stream.Context() is done from now on.
Cancel(c) ==
    /\ pc[c] # "done"
    /\ ~cancelled[c]
    /\ cancelled' = [cancelled EXCEPT ![c] = TRUE]
    /\ UNCHANGED <<healthVars, logVars, readerVars, startVars, planVars>>
    /\ UNCHANGED <<objectSize, impl, req, pc, local, storeLog, sendLog, result>>

Next ==
    \E c \in Calls :
        \/ Validate(c)
        \/ HeadFails(c)
        \/ HeadSucceeds(c)
        \/ LoopStep(c)
        \/ FetchFails(c)
        \/ FetchSucceeds(c)
        \/ DrainFails(c)
        \/ DrainSucceeds(c)
        \/ SendIssue(c)
        \/ SendSucceeds(c)
        \/ SendFails(c)
        \/ Cancel(c)

\* A step of call c's handler: the handler's goroutine runs, or a call of
\* the store or of stream.Send it waits for returns, with success or with
\* failure.
Proceed(c) ==
    \/ Validate(c)
    \/ HeadFails(c)
    \/ HeadSucceeds(c)
    \/ LoopStep(c)
    \/ FetchFails(c)
    \/ FetchSucceeds(c)
    \/ DrainFails(c)
    \/ DrainSucceeds(c)
    \/ SendIssue(c)
    \/ SendSucceeds(c)
    \/ SendFails(c)

\* The Download calls when every call of the store and every stream.Send
\* returns and every handler's goroutine gets to run.
InitFair ==
    /\ InitDownload(Sizes, Impls,
                    {[bucket |-> TestBucket, key |-> TestKey],
                     [bucket |-> TestBucket, key |-> "missing.txt"]})
    /\ InitHealth({TRUE})
    /\ InitLogIdle
    /\ InitReaderIdle
    /\ InitServing
    /\ InitPlanIdle

SpecFair ==
    /\ InitFair
    /\ [][Next]_vars
    /\ \A c \in Calls : WF_vars(Proceed(c))

\* The Download calls on a store whose HeadObject may answer without
\* ContentLength.
InitShape ==
    /\ InitDownload({0, TestFileSize}, Impls,
                    {[bucket |-> TestBucket, key |-> TestKey],
                     [bucket |-> TestBucket, key |-> "missing.txt"]})
    /\ InitHealth({TRUE})
    /\ InitLogIdle
    /\ InitReaderIdle
    /\ InitServing
    /\ InitPlanIdle

NextShape ==
    \/ Next
    \/ \E c \in Calls : HeadSucceedsNoSize(c)

SpecShape == InitShape /\ [][NextShape]_vars

Spec == Init /\ [][Next]_vars

----------------------------------------------------------------------------
\* The logging interceptors of WithElasticsearchServerLogger.  One entry,
\* *logrusEntry, is shared by the chains of all calls; of its fields the
\* model keeps "trace.id".  The chain of a call is, from the outside in:
\* grpc_ctxtags, the interceptor that extracts the trace id, grpc_logrus,
\* the payload interceptor, the handler.

\* The calls as they reach the chain: metadata among mds, methods among ms, a
\* server built with one of the deciders ds, a fresh entry.
InitLog(mds, ms, ds) ==
    /\ md \in [Calls -> mds]
    /\ method \in [Calls -> ms]
    /\ decider \in ds
    /\ ipc = [c \in Calls |-> "start"]
    /\ entry = "unset"
    /\ traceFields = [c \in Calls |-> "unset"]
    /\ callEntry = [c \in Calls |-> "unset"]
    /\ wrapped = [c \in Calls |-> FALSE]
    /\ lines = [c \in Calls |-> {}]
    /\ hout = [c \in Calls |-> NotReturned]
    /\ ret = [c \in Calls |-> NotReturned]

\* Mutant: a call whose trace header does not parse is refused.
InterceptStrict(c) ==
    /\ ipc[c] = "start"
    /\ LET t == ExtractTraceParent(md[c])
       IN  /\ traceFields' = [traceFields EXCEPT ![c] = t]
           /\ entry' = t
           /\ IF md[c].ok /\ Len(md[c].values) > 0 /\ t = ""
              THEN /\ ipc' = [ipc EXCEPT ![c] = "done"]
                   /\ ret' = [ret EXCEPT ![c] =
                                 [resp |-> "none", code |-> "InvalidArgument"]]
              ELSE /\ ipc' = [ipc EXCEPT ![c] = "traced"]
                   /\ UNCHANGED ret
    /\ UNCHANGED <<downloadVars, healthVars, readerVars, startVars, planVars>>
    /\ UNCHANGED <<md, method, decider, callEntry, wrapped, lines, hout>>

\* The interceptor that adds the trace id: traceIDFields is made of
\* ExtractTraceParent(stream.Context()) (of ctx for a unary call), and
\* *logrusEntry = *logrusEntry.WithFields(traceIDFields) overwrites the
\* shared entry.
Intercept(c) ==
    /\ ipc[c] = "start"
    /\ LET t == ExtractTraceParent(md[c])
       IN  /\ traceFields' = [traceFields EXCEPT ![c] = t]
           /\ entry' = t
    /\ ipc' = [ipc EXCEPT ![c] = "traced"]
    /\ UNCHANGED <<downloadVars, healthVars, readerVars, startVars, planVars>>
    /\ UNCHANGED <<md, method, decider, callEntry, wrapped, lines, hout, ret>>

\* The logger of the call.  On a stream it is ctxlogrus.Extract(logCtx): the
\* shared entry with the fields added to logCtx, traceIDFields among them,
\* laid over it.  On a unary call grpc_logrus.UnaryServerInterceptor is
\* given logrusEntry itself and derives the call's logger from what the
\* shared entry holds when it runs.
LoggerForCall(c) ==
    /\ ipc[c] = "traced"
    /\ callEntry' = [callEntry EXCEPT ![c] =
           IF IsStream(method[c]) THEN traceFields[c] ELSE entry]
    /\ ipc' = [ipc EXCEPT ![c] = "logged"]
    /\ UNCHANGED <<downloadVars, healthVars, readerVars, startVars, planVars>>
    /\ UNCHANGED <<md, method, decider, entry, traceFields, wrapped, lines,
                   hout, ret>>

\* grpc_logrus.PayloadUnaryServerInterceptor / PayloadStreamServerInterceptor
\* (logrusEntry, serverPayloadLoggingDecider): the decider is asked; when it
\* says no the handler is called as it is; when it says yes the request of a
\* unary call is logged, and the stream of a streaming call is wrapped; the
\* lines carry the fields of the call's logger.
PayloadIntercept(c) ==
    /\ ipc[c] = "logged"
    /\ wrapped' = [wrapped EXCEPT ![c] = Decide(decider, method[c])]
    /\ IF IsStream(method[c])
       THEN /\ ipc' = [ipc EXCEPT ![c] = "recv"]
            /\ UNCHANGED lines
       ELSE /\ ipc' = [ipc EXCEPT ![c] = "handler"]
            /\ lines' = [lines EXCEPT ![c] =
                  @ \cup (IF Decide(decider, method[c])
                          THEN {Line("request payload", callEntry[c])}
                          ELSE {})]
    /\ UNCHANGED <<downloadVars, healthVars, readerVars, startVars, planVars>>
    /\ UNCHANGED <<md, method, decider, entry, traceFields, callEntry, hout, ret>>

\* The generated handler of a streaming method reads the request with
\* stream.RecvMsg: grpc_ctxtags hands it to RequestExtractor(logrusEntry),
\* which logs it with the shared entry, and the wrapping stream of the
\* payload interceptor, when there is one, logs it too.
RecvMsg(c) ==
    /\ ipc[c] = "recv"
    /\ lines' = [lines EXCEPT ![c] =
          @ \cup {Line("request", entry)}
            \cup (IF wrapped[c]
                  THEN {Line("request payload", callEntry[c])}
                  ELSE {})]
    /\ ipc' = [ipc EXCEPT ![c] = "handler"]
    /\ UNCHANGED <<downloadVars, healthVars, readerVars, startVars, planVars>>
    /\ UNCHANGED <<md, method, decider, entry, traceFields, callEntry, wrapped,
                   hout, ret>>

\* The handler returns.  Download, when stream.Send has failed, has logged
\* the failure with ExtractTraceParent(stream.Context()); the payload
\* interceptor logs the response of a call it logs.
HandlerReturns(c) ==
    /\ ipc[c] = "handler"
    /\ \E out \in HandlerOutcomes :
          /\ (out.code = "OK") =>
                ((out.resp = "response") <=> ~IsStream(method[c]))
          /\ hout' = [hout EXCEPT ![c] = out]
          /\ lines' = [lines EXCEPT ![c] =
                @ \cup (IF method[c] = DownloadMethod /\ out.code = "Canceled"
                        THEN {LeveledLine("part send failure",
                                          ExtractTraceParent(md[c]), "error")}
                        ELSE {})
                  \cup (IF wrapped[c] /\ out.code = "OK"
                        THEN {Line("response payload", callEntry[c])}
                        ELSE {})]
    /\ ipc' = [ipc EXCEPT ![c] = "returning"]
    /\ UNCHANGED <<downloadVars, healthVars, readerVars, startVars, planVars>>
    /\ UNCHANGED <<md, method, decider, entry, traceFields, callEntry, wrapped,
                   ret>>

\* grpc_logrus logs the outcome of the call with the call's logger, when
\* its decider says so, at the level of the error's status code, and the
\* chain returns what the handler returned.
LogOutcome(c) ==
    /\ ipc[c] = "returning"
    /\ lines' = [lines EXCEPT ![c] =
          @ \cup (IF OutcomeLogged(decider, method[c])
                  THEN {LeveledLine("outcome", callEntry[c],
                                    DefaultCodeToLevel(hout[c].code))}
                  ELSE {})]
    /\ ret' = [ret EXCEPT ![c] = hout[c]]
    /\ ipc' = [ipc EXCEPT ![c] = "done"]
    /\ UNCHANGED <<downloadVars, healthVars, readerVars, startVars, planVars>>
    /\ UNCHANGED <<md, method, decider, entry, traceFields, callEntry, wrapped,
                   hout>>

\* Download returns to the chain: what it returned is the handler's outcome.
\* Service.Download has logged the failure of stream.Send, with
\* ExtractTraceParent(stream.Context()) and Errorf, before it returned it.
DownloadReturns(c) ==
    /\ pc[c] = "done"
    /\ ipc[c] = "handler"
    /\ hout' = [hout EXCEPT ![c] = [resp |-> "none", code |-> result[c].code]]
    /\ lines' = [lines EXCEPT ![c] =
          @ \cup (IF impl = "Service" /\ result[c].msg = "send"
                  THEN {LeveledLine("part send failure",
                                    ExtractTraceParent(md[c]), "error")}
                  ELSE {})
            \cup (IF wrapped[c] /\ result[c] = NoError
                  THEN {Line("response payload", callEntry[c])}
                  ELSE {})]
    /\ ipc' = [ipc EXCEPT ![c] = "returning"]
    /\ UNCHANGED <<downloadVars, healthVars, readerVars, startVars, planVars>>
    /\ UNCHANGED <<md, method, decider, entry, traceFields, callEntry, wrapped,
                   ret>>

\* The handlers have not been entered.
InitNotEntered ==
    InitDownload({TestFileSize}, {"Service"},
                 {[bucket |-> TestBucket, key |-> TestKey]})

\* ExtractTraceParent alone, on every metadata.
InitTrace ==
    /\ InitNotEntered
    /\ InitHealth({TRUE})
    /\ InitLog(Metadatas, {DownloadMethod}, {ServerDecider})
    /\ InitReaderIdle
    /\ InitServing
    /\ InitPlanIdle

NextTrace == \E c \in Calls : Intercept(c)

SpecTrace == InitTrace /\ [][NextTrace]_vars

\* The chains of the calls, running beside each other.
InitChain ==
    /\ InitNotEntered
    /\ InitHealth({TRUE})
    /\ InitLog(TraceHeaderStates, Methods, Deciders)
    /\ InitReaderIdle
    /\ InitServing
    /\ InitPlanIdle

NextLog ==
    \E c \in Calls :
        \/ Intercept(c)
        \/ LoggerForCall(c)
        \/ PayloadIntercept(c)
        \/ RecvMsg(c)
        \/ HandlerReturns(c)
        \/ LogOutcome(c)

SpecLog == InitChain /\ [][NextLog]_vars

\* The Download calls inside the chain, on a server built with the default
\* decider or with the server's own.
InitCall ==
    /\ InitDownload({0, PartSize + 1}, Impls,
                    {[bucket |-> TestBucket, key |-> TestKey],
                     [bucket |-> TestBucket, key |-> "missing.txt"],
                     [bucket |-> "", key |-> TestKey]})
    /\ InitHealth({TRUE})
    /\ InitLogRunning({[kind |-> "Default", ignored |-> {}], ServerDecider})
    /\ InitReaderIdle
    /\ InitServing
    /\ InitPlanIdle

NextCall ==
    \/ Next
    \/ \E c \in Calls : DownloadReturns(c) \/ LogOutcome(c)

SpecCall == InitCall /\ [][NextCall]_vars

----------------------------------------------------------------------------
\* The health check worker (healthCheckWorker, and the goroutine of the older
\* main) and the health server.  The worker is in ListBuckets ("probing") or
\* in time.Sleep ("sleeping"); setting the status follows the return of
\* ListBuckets without a blocking call in between.

StatusOf(probe) == IF probe = "ok" THEN "SERVING" ELSE "NOT_SERVING"

\* ListBuckets returns without error:
\* SetServingStatus("", SERVING), then time.Sleep.
ProbeSucceeds ==
    /\ monitor = "probing"
    /\ storeUp
    /\ healthState' = "SERVING"
    /\ lastProbe' = "ok"
    /\ monitor' = "sleeping"
    /\ UNCHANGED <<storeUp, checkReply>>
    /\ UNCHANGED <<downloadVars, logVars, readerVars, startVars, planVars>>

\* Mutant: a failed probe is only skipped, the status stays as it was.
ProbeFailsKeepsStatus ==
    /\ monitor = "probing"
    /\ ~storeUp
    /\ lastProbe' = "failed"
    /\ monitor' = "sleeping"
    /\ UNCHANGED <<healthState, storeUp, checkReply>>
    /\ UNCHANGED <<downloadVars, logVars, readerVars, startVars, planVars>>

\* Mutant: the worker returns when a probe fails.
ProbeFailsStops ==
    /\ monitor = "probing"
    /\ ~storeUp
    /\ healthState' = "NOT_SERVING"
    /\ lastProbe' = "failed"
    /\ monitor' = "stopped"
    /\ UNCHANGED <<storeUp, checkReply>>
    /\ UNCHANGED <<downloadVars, logVars, readerVars, startVars, planVars>>

\* ListBuckets returns an error:
\* SetServingStatus("", NOT_SERVING), then time.Sleep.
ProbeFails ==
    /\ monitor = "probing"
    /\ ~storeUp
    /\ healthState' = "NOT_SERVING"
    /\ lastProbe' = "failed"
    /\ monitor' = "sleeping"
    /\ UNCHANGED <<storeUp, checkReply>>
    /\ UNCHANGED <<downloadVars, logVars, readerVars, startVars, planVars>>

\* time.Sleep returns: the loop goes round and calls ListBuckets.
Wake ==
    /\ monitor = "sleeping"
    /\ monitor' = "probing"
    /\ UNCHANGED <<healthState, storeUp, lastProbe, checkReply>>
    /\ UNCHANGED <<downloadVars, logVars, readerVars, startVars, planVars>>

\* The health server, once the server serves, answers Check for the service
\* "" with the status it holds.  probe is not part of the answer: it notes which probe was the last
\* completed one when the answer was given.
HealthCheck ==
    /\ phase = "serving"
    /\ checkReply' = [status |-> healthState, probe |-> lastProbe]
    /\ UNCHANGED <<healthState, monitor, storeUp, lastProbe>>
    /\ UNCHANGED <<downloadVars, logVars, readerVars, startVars, planVars>>

\* The store becomes unreachable, or reachable again.
StoreChange ==
    /\ storeUp' = ~storeUp
    /\ UNCHANGED <<healthState, monitor, lastProbe, checkReply>>
    /\ UNCHANGED <<downloadVars, logVars, readerVars, startVars, planVars>>

\* The server: the Download calls, the worker and the health server beside
\* each other, on a store that is reachable or not.
InitServer ==
    /\ InitDownload({0, PartSize + 1}, Impls,
                    {[bucket |-> TestBucket, key |-> TestKey],
                     [bucket |-> TestBucket, key |-> "missing.txt"],
                     [bucket |-> "", key |-> TestKey]})
    /\ InitHealth(BOOLEAN)
    /\ InitLogIdle
    /\ InitReaderIdle
    /\ InitServing
    /\ InitPlanIdle

NextServer ==
    \/ Next
    \/ ProbeSucceeds
    \/ ProbeFails
    \/ Wake
    \/ HealthCheck
    \/ StoreChange

SpecServer == InitServer /\ [][NextServer]_vars

\* The server with the scheduling the worker relies on: a call of
\* ListBuckets returns, time.Sleep returns, and the goroutine gets to run.
InitServerFair ==
    /\ InitDownload({TestFileSize}, Impls,
                    {[bucket |-> TestBucket, key |-> TestKey],
                     [bucket |-> TestBucket, key |-> ""]})
    /\ InitHealth(BOOLEAN)
    /\ InitLogIdle
    /\ InitReaderIdle
    /\ InitServing
    /\ InitPlanIdle

SpecServerFair ==
    /\ InitServerFair
    /\ [][NextServer]_vars
    /\ WF_vars(ProbeSucceeds \/ ProbeFails)
    /\ WF_vars(Wake)

----------------------------------------------------------------------------
\* Start-up: NewServer, then Serve.  phase is "new" before NewServer has
\* returned, "built" between NewServer and net.Listen, "serving" once
\* Server.Serve accepts calls and "exited" when the process has ended;
\* startErr is the failure that ended it.

\* session.NewSession returns an error: logger.Fatalf, which exits, before
\* the gRPC server, the health server and the worker exist.
NewServerFails ==
    /\ phase = "new"
    /\ phase' = "exited"
    /\ startErr' = "session"
    /\ UNCHANGED <<downloadVars, healthVars, logVars, readerVars, planVars>>

\* NewServer returns the server: the services are registered, the health
\* server holds SERVING for the service "" and
\* go downloadServer.healthCheckWorker(healthServer) has started the worker.
NewServerSucceeds ==
    /\ phase = "new"
    /\ phase' = "built"
    /\ healthState' = "SERVING"
    /\ monitor' = "probing"
    /\ UNCHANGED <<storeUp, lastProbe, checkReply, startErr>>
    /\ UNCHANGED <<downloadVars, logVars, readerVars, planVars>>

\* Mutant: a failure to listen is returned to the caller, the process and
\* its worker live on.
ListenFailsReturns ==
    /\ phase = "built"
    /\ phase' = "failed"
    /\ startErr' = "listen"
    /\ UNCHANGED <<downloadVars, healthVars, logVars, readerVars, planVars>>

\* net.Listen returns an error: s.logger.Fatalf, which exits the process and
\* with it the worker's goroutine.
ListenFails ==
    /\ phase = "built"
    /\ phase' = "exited"
    /\ startErr' = "listen"
    /\ monitor' = "exited"
    /\ UNCHANGED <<healthState, storeUp, lastProbe, checkReply>>
    /\ UNCHANGED <<downloadVars, logVars, readerVars, planVars>>

\* net.Listen returns the listener and s.Server.Serve(lis) accepts calls.
ListenSucceeds ==
    /\ phase = "built"
    /\ phase' = "serving"
    /\ UNCHANGED <<downloadVars, healthVars, logVars, readerVars, startErr, planVars>>

\* s.Server.Serve(lis) returns an error: s.logger.Fatalf, which exits the
\* process with its worker and the calls it was handling.
ServeFails ==
    /\ phase = "serving"
    /\ phase' = "exited"
    /\ startErr' = "serve"
    /\ monitor' = "exited"
    /\ pc' = [c \in Calls |-> "crashed"]
    /\ UNCHANGED <<healthState, storeUp, lastProbe, checkReply>>
    /\ UNCHANGED <<objectSize, impl, req, cancelled, local, storeLog, sendLog,
                   result>>
    /\ UNCHANGED <<logVars, readerVars, planVars>>

\* The process before NewServer: no health server, no worker, and the calls
\* clients will make once the server serves.
InitStartup ==
    /\ InitDownload({TestFileSize}, {"Service"},
                    {[bucket |-> TestBucket, key |-> TestKey],
                     [bucket |-> TestBucket, key |-> ""]})
    /\ healthState = "none"
    /\ monitor = "notStarted"
    /\ storeUp \in BOOLEAN
    /\ lastProbe = "none"
    /\ checkReply = NoReply
    /\ InitLogIdle
    /\ InitReaderIdle
    /\ InitPlanIdle
    /\ phase = "new"
    /\ startErr = "none"

NextStartup ==
    \/ NewServerFails
    \/ NewServerSucceeds
    \/ ListenFails
    \/ ListenSucceeds
    \/ ServeFails
    \/ NextServer

SpecStartup == InitStartup /\ [][NextStartup]_vars

----------------------------------------------------------------------------

\* StreamReadCloser, the io.Reader a client lays over the stream of a
\* Download call.

\* Reads of one reader that are followed.
MaxReads == 5

\* Mutant: Recv is called before the length of the buffer is looked at.
ReadRecvFirst(l) ==
    /\ reader.reads < MaxReads
    /\ IF reader.pos < Len(inbox.chunks)
       THEN LET part == inbox.chunks[reader.pos + 1]
                read == IF l >= PartSize /\ l >= RunLen(part)
                        THEN RunLen(part) ELSE 0
            IN  /\ lastRead' = [len |-> l, n |-> read,
                                err |-> IF l < PartSize THEN ErrReadBuffer ELSE Nil,
                                p |-> IF read > 0 THEN part ELSE NoBytes,
                                recv |-> TRUE]
                /\ reader' = [pos |-> reader.pos + 1,
                              recvs |-> reader.recvs + 1,
                              reads |-> reader.reads + 1,
                              got |-> IF read > 0
                                      THEN AppendBytes(reader.got, part)
                                      ELSE reader.got]
       ELSE /\ lastRead' = [len |-> l, n |-> 0, err |-> inbox.end,
                            p |-> NoBytes, recv |-> TRUE]
            /\ reader' = [reader EXCEPT !.recvs = @ + 1, !.reads = @ + 1]
    /\ UNCHANGED <<inbox, startVars, planVars>>
    /\ UNCHANGED <<downloadVars, healthVars, logVars>>

\* Mutant: the error of Recv is wrapped in a new error.
ReadWrapsError(l) ==
    /\ reader.reads < MaxReads
    /\ IF l < PartSize
       THEN /\ lastRead' = [len |-> l, n |-> 0, err |-> ErrReadBuffer,
                            p |-> NoBytes, recv |-> FALSE]
            /\ reader' = [reader EXCEPT !.reads = @ + 1]
       ELSE IF reader.pos < Len(inbox.chunks)
       THEN LET part == inbox.chunks[reader.pos + 1]
                read == IF l >= RunLen(part) THEN RunLen(part) ELSE 0
            IN  /\ lastRead' = [len |-> l, n |-> read, err |-> Nil,
                                p |-> IF read > 0 THEN part ELSE NoBytes,
                                recv |-> TRUE]
                /\ reader' = [pos |-> reader.pos + 1,
                              recvs |-> reader.recvs + 1,
                              reads |-> reader.reads + 1,
                              got |-> IF read > 0
                                      THEN AppendBytes(reader.got, part)
                                      ELSE reader.got]
       ELSE /\ lastRead' = [len |-> l, n |-> 0,
                            err |-> [id |-> "fmt.Errorf in Read",
                                     msg |-> inbox.end.msg],
                            p |-> NoBytes, recv |-> TRUE]
            /\ reader' = [reader EXCEPT !.recvs = @ + 1, !.reads = @ + 1]
    /\ UNCHANGED <<inbox, startVars, planVars>>
    /\ UNCHANGED <<downloadVars, healthVars, logVars>>

\* Read(p) with len(p) = l: the error for a buffer shorter than PartSize;
\* else r.stream.Recv(), whose error is returned; else the chunk is copied
\* into p when len(p) >= len(part), and read is returned.
Read(l) ==
    /\ reader.reads < MaxReads
    /\ IF l < PartSize
       THEN /\ lastRead' = [len |-> l, n |-> 0, err |-> ErrReadBuffer,
                            p |-> NoBytes, recv |-> FALSE]
            /\ reader' = [reader EXCEPT !.reads = @ + 1]
       ELSE IF reader.pos < Len(inbox.chunks)
       THEN LET part == inbox.chunks[reader.pos + 1]
                read == IF l >= RunLen(part) THEN RunLen(part) ELSE 0
            IN  /\ lastRead' = [len |-> l, n |-> read, err |-> Nil,
                                p |-> IF read > 0 THEN part ELSE NoBytes,
                                recv |-> TRUE]
                /\ reader' = [pos |-> reader.pos + 1,
                              recvs |-> reader.recvs + 1,
                              reads |-> reader.reads + 1,
                              got |-> IF read > 0
                                      THEN AppendBytes(reader.got, part)
                                      ELSE reader.got]
       ELSE /\ lastRead' = [len |-> l, n |-> 0, err |-> inbox.end,
                            p |-> NoBytes, recv |-> TRUE]
            /\ reader' = [reader EXCEPT !.recvs = @ + 1, !.reads = @ + 1]
    /\ UNCHANGED <<inbox, startVars, planVars>>
    /\ UNCHANGED <<downloadVars, healthVars, logVars>>

\* A client reads the stream of one Download call with buffers of its choice.
InitClient ==
    /\ InitNotEntered
    /\ InitHealth({TRUE})
    /\ InitLogIdle
    /\ InitReader(Inboxes)
    /\ InitServing
    /\ InitPlanIdle

NextReader == \E l \in BufLens : Read(l)

SpecReader == InitClient /\ [][NextReader]_vars

----------------------------------------------------------------------------
\* A client reads a stream of the Download service, of whichever server.
InitStream ==
    /\ InitNotEntered
    /\ InitHealth({TRUE})
    /\ InitLogIdle
    /\ InitReader(StreamInboxes)
    /\ InitServing
    /\ InitPlanIdle

SpecStream == InitStream /\ [][NextReader]_vars

----------------------------------------------------------------------------

\* Download's arithmetic on int64, for one call.

\* totalParts is computed from ContentLength.
PlanParts ==
    /\ plan.step = "head"
    /\ plan' = [plan EXCEPT !.step = "loop",
                            !.totalParts = TotalParts64(plan.S)]
    /\ UNCHANGED <<downloadVars, healthVars, logVars, readerVars, startVars>>

\* The loop has come to currentPart, with currentPart < totalParts.  The
\* loop takes the values 0, 1, ... in turn; the model follows the first two
\* and the last two.
EnterPart ==
    /\ plan.step \in {"loop", "ranged"}
    /\ \E currentPart \in {Int64Of(0), Int64Of(1),
                           Sub64(plan.totalParts, Int64Of(2)),
                           Sub64(plan.totalParts, Int64Of(1))} :
          /\ ~IsNeg64(currentPart)
          /\ Lt64(currentPart, plan.totalParts)
          /\ plan' = [plan EXCEPT !.step = "part",
                                  !.currentPart = currentPart,
                                  !.rangeStart = Int64Of(0),
                                  !.rangeEnd = Int64Of(0)]
    /\ UNCHANGED <<downloadVars, healthVars, logVars, readerVars, startVars>>

\* rangeStart and rangeEnd of the part are computed, for the GetObjectInput.
PlanRange ==
    /\ plan.step = "part"
    /\ LET rangeStart == RangeStart64(plan.currentPart)
       IN  plan' = [plan EXCEPT !.step = "ranged",
                                !.rangeStart = rangeStart,
                                !.rangeEnd = RangeEnd64(rangeStart, plan.S)]
    /\ UNCHANGED <<downloadVars, healthVars, logVars, readerVars, startVars>>

InitInt64 ==
    /\ InitNotEntered
    /\ InitHealth({TRUE})
    /\ InitLogIdle
    /\ InitReaderIdle
    /\ InitServing
    /\ InitPlan(Sizes64)

NextInt64 == PlanParts \/ EnterPart \/ PlanRange

SpecInt64 == InitInt64 /\ [][NextInt64]_vars

----------------------------------------------------------------------------

\* What a call has done so far

Done(c) == pc[c] = "done"

\* The chunks stream.Send has delivered, in order.
Sent(c) == SelectSeq(sendLog[c], LAMBDA e : e.state = "ok")

\* The range fetches issued, in order.
Gets(c) == SelectSeq(storeLog[c], LAMBDA e : e.op = "GetObject")

AllOk(log) == \A k \in 1..Len(log) : log[k].state = "ok"

InFlight(c) ==
    Cardinality({k \in 1..Len(storeLog[c]) : storeLog[c][k].state = "inflight"})
    + Cardinality({k \in 1..Len(sendLog[c]) : sendLog[c][k].state = "inflight"})

\* The length the last chunk of an object of S > 0 bytes must have.
LastLen(S) == IF S % PartSize = 0 THEN PartSize ELSE S % PartSize

\* The call asks for the stored object.
ForObject(c) == Exists(req[c].bucket, req[c].key)

----------------------------------------------------------------------------
\* C1: when Download has returned nil for the stored object of S bytes and
\* no fetch and no send of the call failed, the lengths of the chunks sent
\* sum to S, every chunk but the last is PartSize bytes long and the last is
\* S mod PartSize bytes long (PartSize when S is a non-zero multiple); an
\* object of PartSize + 1 bytes is sent as a chunk of PartSize bytes and
\* one of 1 byte.
C1_ChunkLengths ==
    \A c \in Calls :
        (Done(c) /\ ForObject(c) /\ result[c] = NoError
            /\ AllOk(storeLog[c]) /\ AllOk(sendLog[c]))
        => LET chunks == Sent(c)
               n == Len(chunks)
           IN  /\ SumLen(chunks, 1) = objectSize
               /\ \A k \in 1..(n - 1) : RunLen(chunks[k].file) = PartSize
               /\ (objectSize > 0) =>
                     (n > 0 /\ RunLen(chunks[n].file) = LastLen(objectSize))
               /\ (objectSize = PartSize + 1) =>
                     (n = 2 /\ RunLen(chunks[1].file) = PartSize
                            /\ RunLen(chunks[2].file) = 1)

\* A download of PartSize + 1 bytes has returned nil after two chunks.
C1_Witness ==
    \E c \in Calls :
        /\ Done(c) /\ result[c] = NoError /\ objectSize = PartSize + 1
        /\ AllOk(sendLog[c]) /\ Len(Sent(c)) = 2

\* C2: when Service.Download has returned nil, the payloads of the chunks
\* sent, concatenated in the order they were sent, are the stored object's
\* bytes, for objects smaller than, equal to and larger than PartSize.
C2_RoundTrip ==
    \A c \in Calls :
        (impl = "Service" /\ Done(c) /\ result[c] = NoError)
        => Concat(Sent(c)) = ObjectBytes(objectSize)

\* Service.Download has returned nil for an object larger than PartSize
\* whose last part is one byte short of a full part.
C2_Witness ==
    \E c \in Calls :
        /\ impl = "Service" /\ Done(c) /\ result[c] = NoError
        /\ objectSize = 2 * PartSize - 1 /\ Len(Sent(c)) = 2

\* C3: within a call the range fetches are issued for the parts 0, 1, 2, ...
\* and the chunks are handed to the stream for the parts 0, 1, 2, ..., one
\* after the other: the fetch of part i+1 is issued only when the send of
\* part i has returned, a send only when its fetch has returned, and never
\* are two fetches or sends of the call in flight at once.
C3_Sequential ==
    \A c \in Calls :
        LET gets == Gets(c)
            sends == sendLog[c]
        IN  /\ \A k \in 1..Len(gets) : gets[k].part = k - 1
            /\ \A k \in 1..Len(sends) : sends[k].part = k - 1
            /\ Len(sends) <= Len(gets)
            /\ Len(gets) <= Len(sends) + 1
            /\ \A k \in 1..Len(gets) :
                  k < Len(gets) =>
                     (gets[k].state = "ok" /\ sends[k].state # "inflight")
            /\ \A k \in 1..Len(sends) : gets[k].state = "ok"
            /\ InFlight(c) <= 1

\* The fetch of part 1 is in flight after the chunk of part 0 was sent.
C3_Witness ==
    \E c \in Calls :
        /\ pc[c] = "fetch" /\ local[c].currentPart = 1
        /\ Len(sendLog[c]) = 1 /\ sendLog[c][1].state = "ok"

\* C4: a call whose key or bucket is empty has returned an error whose
\* status code is InvalidArgument, has issued no store call and has sent no
\* chunk.
C4_InvalidArgument ==
    \A c \in Calls :
        (Done(c) /\ (req[c].key = "" \/ req[c].bucket = ""))
        => /\ result[c].code = "InvalidArgument"
           /\ storeLog[c] = <<>>
           /\ sendLog[c] = <<>>

\* C5: a call that names a missing key or a missing bucket has returned an
\* error of status NotFound when the probe found nothing and of status
\* Unavailable when the probe failed transiently, and in both cases no
\* range fetch was issued and no chunk was sent.
C5_NotFound ==
    \A c \in Calls :
        (Done(c) /\ req[c].key # "" /\ req[c].bucket # "" /\ ~ForObject(c))
        => /\ IsError(result[c])
           /\ (result[c].cause = "NotFound") => (result[c].code = "NotFound")
           /\ (result[c].cause = "RequestError") =>
                 (result[c].code = "Unavailable")
           /\ Gets(c) = <<>>
           /\ sendLog[c] = <<>>

\* C6: a call for the stored object of 0 bytes issues no range fetch and
\* sends no chunk, and once its probe has succeeded it returns nil with the
\* probe as its only store call.
C6_EmptyObject ==
    \A c \in Calls :
        (objectSize = 0 /\ ForObject(c))
        => /\ Gets(c) = <<>>
           /\ sendLog[c] = <<>>
           /\ (Done(c) /\ storeLog[c][1].state = "ok") =>
                 (result[c] = NoError /\ Len(storeLog[c]) = 1)

\* A download of the empty object has returned nil after its probe.
C6_Witness ==
    \E c \in Calls :
        /\ objectSize = 0 /\ ForObject(c) /\ Done(c) /\ result[c] = NoError
        /\ Len(storeLog[c]) = 1 /\ storeLog[c][1].state = "ok"

\* ceil(S / PartSize)
CeilDiv(S) == (S + PartSize - 1) \div PartSize

\* C7: a call that has returned has either returned nil, and then exactly
\* ceil(S / PartSize) chunks were sent and no fetch and no send of the call
\* failed, or returned an error, and then the chunks sent are those of the
\* parts 0..k-1 for some k.
C7_Outcome ==
    \A c \in Calls :
        Done(c)
        => \/ /\ result[c] = NoError
              /\ Len(Sent(c)) = CeilDiv(objectSize)
              /\ AllOk(storeLog[c])
              /\ AllOk(sendLog[c])
           \/ /\ IsError(result[c])
              /\ \A k \in 1..Len(Sent(c)) : Sent(c)[k].part = k - 1

\* C8: when the range fetch of part i has failed, or the draining of its
\* body, the call has returned an error, that fetch is the last store call
\* of the call, and the sends of the call are those of the parts 0..i-1, all
\* of them returned (and all delivered under Service.Download).
C8_FetchFailureAborts ==
    \A c \in Calls :
        /\ \A k \in 1..Len(storeLog[c]) :
              (storeLog[c][k].op = "GetObject" /\ storeLog[c][k].state = "failed")
              => /\ k = Len(storeLog[c])
                 /\ Done(c)
                 /\ result[c].msg = "failed to download object"
                 /\ Len(sendLog[c]) = storeLog[c][k].part
        /\ (result[c].msg = "failed to download part")
              => /\ Done(c)
                 /\ storeLog[c][Len(storeLog[c])].op = "GetObject"
                 /\ storeLog[c][Len(storeLog[c])].part = result[c].part
                 /\ storeLog[c][Len(storeLog[c])].state = "ok"
                 /\ Len(sendLog[c]) = result[c].part
        /\ (Done(c) /\ result[c].msg \in {"failed to download object",
                                         "failed to download part"})
              => /\ \A j \in 1..Len(sendLog[c]) :
                       sendLog[c][j].part = j - 1 /\ sendLog[c][j].state # "inflight"
                 /\ (impl = "Service") => AllOk(sendLog[c])

\* The fetch of part 1 has failed after the chunk of part 0 was sent, and the
\* call has returned.
C8_Witness ==
    \E c \in Calls :
        /\ Done(c) /\ Len(Gets(c)) = 2 /\ Gets(c)[2].state = "failed"
        /\ Len(Sent(c)) = 1

\* C9: when the send of the chunk of part i has failed, the call has
\* returned that send error, and that send is its last send and the fetch
\* of part i its last range fetch.
C9_SendFailureAborts ==
    \A c \in Calls :
        \A k \in 1..Len(sendLog[c]) :
            (sendLog[c][k].state = "failed")
            => /\ k = Len(sendLog[c])
               /\ Done(c)
               /\ result[c].msg = "send"
               /\ Len(Gets(c)) = k

\* C10: once a call is cancelled its handler issues no store call and no
\* send any more, and when it returns an error the error's status is
\* Canceled.
C10_CancelObserved ==
    [][\A c \in Calls :
          cancelled[c]
          => /\ Len(storeLog'[c]) = Len(storeLog[c])
             /\ Len(sendLog'[c]) = Len(sendLog[c])
             /\ (pc[c] # "done" /\ pc'[c] = "done" /\ result'[c] # NoError)
                   => (result'[c].code = "Canceled")]_vars

\* The calls of the log that failed.
Failed(log) == {k \in 1..Len(log) : log[k].state = "failed"}

\* C11: within a call of Download the probe is issued at most once, the
\* range fetch of each part at most once and the send of each chunk at most
\* once; a store call that failed is the call's last store call, no send
\* follows it and the call has returned an error; under Service.Download a
\* send that failed is the call's last send, no store call follows it and
\* the call has returned an error.
C11_NoRetries ==
    \A c \in Calls :
        LET gets == Gets(c)
            sends == sendLog[c]
            store == storeLog[c]
        IN  /\ Cardinality({k \in 1..Len(store) : store[k].op = "HeadObject"}) <= 1
            /\ \A j, k \in 1..Len(gets) : gets[j].part = gets[k].part => j = k
            /\ \A j, k \in 1..Len(sends) : sends[j].part = sends[k].part => j = k
            /\ \A k \in Failed(store) :
                  /\ k = Len(store)
                  /\ Done(c) /\ IsError(result[c])
                  /\ Len(sends) = Len(gets) - (IF store[k].op = "GetObject" THEN 1 ELSE 0)
                  /\ \A j \in 1..Len(sends) : sends[j].state # "inflight"
            /\ (result[c].msg = "failed to download part")
                  => (Done(c) /\ Len(sends) = Len(gets) - 1)
            /\ (impl = "Service") =>
                  \A k \in Failed(sends) :
                      /\ k = Len(sends)
                      /\ Done(c) /\ IsError(result[c])
                      /\ Len(gets) = k
                      /\ Len(store) = k + 1

\* Service.Download has returned the error of the send of its second chunk
\* after two range fetches.
C11_Witness ==
    \E c \in Calls :
        /\ impl = "Service" /\ Done(c) /\ IsError(result[c])
        /\ Len(sendLog[c]) = 2 /\ sendLog[c][2].state = "failed"
        /\ Len(Gets(c)) = 2

\* The header value is a traceparent with a trace id that is not zero.
Parses(v) == v.form = "traceparent" /\ v.hex \in {"0af7", "B9C7"}

\* The metadata carries the trace header with exactly one value, which parses.
CarriesTrace(m) == m.ok /\ Len(m.values) = 1 /\ Parses(m.values[1])

\* The trace identifier of the digits h, as it is written in a log line.
TraceIdOf(h) == IF h = "B9C7" THEN "b9c7" ELSE h

\* C12: ExtractTraceParent returns the trace identifier of the header's
\* value when the incoming metadata carries the trace header with exactly
\* one value and that value parses, and the empty string in every other
\* case (no metadata, no value, several values, a value that does not
\* parse); it returns a non-empty string in the first case only, and the
\* interceptor that calls it always goes on with the call.
C12_TraceParent ==
    \A c \in Calls :
        /\ (ipc[c] = "start") => ENABLED Intercept(c)
        /\ (ipc[c] # "start") =>
              /\ CarriesTrace(md[c]) =>
                    traceFields[c] = TraceIdOf(md[c].values[1].hex)
              /\ ~CarriesTrace(md[c]) => traceFields[c] = ""
              /\ (traceFields[c] # "") <=> CarriesTrace(md[c])

\* The trace id of one call was extracted from a header written in upper
\* case, and for another call, whose header has two values that both parse,
\* the empty string was returned.
C12_Witness ==
    \E c, d \in Calls :
        /\ ipc[c] = "traced" /\ md[c].ok /\ Len(md[c].values) = 1
        /\ md[c].values[1].hex = "B9C7" /\ traceFields[c] = "b9c7"
        /\ ipc[d] = "traced" /\ md[d].ok /\ Len(md[d].values) = 2
        /\ Parses(md[d].values[1]) /\ Parses(md[d].values[2])
        /\ traceFields[d] = ""

\* C13: for a unary and for a streaming call, whatever the handler returns
\* and whatever the trace header is, the chain calls the handler and returns
\* what the handler returned, and returns nothing before; a header that is
\* missing, malformed or multi-valued makes the trace id empty and nothing
\* else.
C13_Transparent ==
    \A c \in Calls :
        /\ (ipc[c] = "done") => (hout[c] \in HandlerOutcomes /\ ret[c] = hout[c])
        /\ (ipc[c] # "done") => ret[c] = NotReturned
        /\ (ipc[c] \in {"returning", "done"}) => hout[c] \in HandlerOutcomes
        /\ (ipc[c] # "start" /\ ~CarriesTrace(md[c])) => traceFields[c] = ""

\* A unary call with a malformed trace header has returned the handler's
\* response, and a streaming call with a valid one the handler's error.
C13_Witness ==
    \E c, d \in Calls :
        /\ ipc[c] = "done" /\ ~IsStream(method[c])
        /\ md[c] = WithValues(<<[form |-> "text", hex |-> ""]>>)
        /\ ret[c] = [resp |-> "response", code |-> "OK"]
        /\ ipc[d] = "done" /\ IsStream(method[d]) /\ CarriesTrace(md[d])
        /\ ret[d] = [resp |-> "none", code |-> "Unknown"]

\* C14: every log line emitted for a call carries the trace id that was
\* extracted when the call entered the chain.
C14_TraceOfCall ==
    \A c \in Calls :
        (ipc[c] # "start") => \A l \in lines[c] : l.trace = traceFields[c]

\* C15: a call for which a line with the request's payload was emitted is a
\* call whose method the decider accepts.
C15_RequestGated ==
    \A c \in Calls :
        (\E l \in lines[c] : l.line \in {"request", "request payload"})
        => Decide(decider, method[c])

C17_StatusIsLastProbe ==
    /\ (lastProbe # "none") => healthState = StatusOf(lastProbe)
    /\ (checkReply # NoReply /\ checkReply.probe # "none")
          => checkReply.status = StatusOf(checkReply.probe)

\* A HealthCheck has answered NOT_SERVING after a failed probe, and the
\* probe after it has succeeded.
C17_Witness ==
    /\ checkReply.probe = "failed"
    /\ checkReply.status = "NOT_SERVING"
    /\ lastProbe = "ok" /\ healthState = "SERVING"

\* The step is taken by call c's handler, or by its client cancelling.
StepOf(c) ==
    \/ Validate(c)
    \/ HeadFails(c)
    \/ HeadSucceeds(c)
    \/ LoopStep(c)
    \/ FetchFails(c)
    \/ FetchSucceeds(c)
    \/ DrainFails(c)
    \/ DrainSucceeds(c)
    \/ SendIssue(c)
    \/ SendSucceeds(c)
    \/ SendFails(c)
    \/ Cancel(c)

\* C18: the status of the health server changes in steps of the worker
\* only; a step of a Download call, whichever it is, leaves the status, the
\* worker and the answers of HealthCheck as they are; and a step that answers
\* a HealthCheck leaves the status as it is and issues no store call, neither
\* a probe of the worker nor a call of a Download.
C18_SingleWriter ==
    [][/\ (healthState' # healthState) => (ProbeSucceeds \/ ProbeFails)
       /\ (\E c \in Calls : StepOf(c)) => UNCHANGED healthVars
       /\ (downloadVars' # downloadVars) => UNCHANGED healthVars
       /\ (checkReply' # checkReply) =>
             UNCHANGED <<healthState, monitor, lastProbe, storeLog, downloadVars>>
      ]_vars

\* A Download call has failed in its probe and another has sent a chunk
\* while the status is SERVING after a successful probe of the worker, and a
\* HealthCheck has answered NOT_SERVING before.
C18_Witness ==
    /\ \E c, d \in Calls :
          /\ Done(c) /\ result[c].msg = "failed to download object"
          /\ Len(Sent(d)) >= 1
    /\ healthState = "SERVING" /\ lastProbe = "ok"
    /\ checkReply.status = "NOT_SERVING"

\* C19: the worker probes again and again: whatever its probes return, it
\* is in ListBuckets infinitely often and in time.Sleep infinitely often (a
\* probe in flight returns and a sleep ends); when the store is reachable
\* from some time on, the status is SERVING from some time on, and when it
\* is unreachable from some time on, the status is NOT_SERVING from some
\* time on.
C19_MonitorNeverStops ==
    /\ []<>(monitor = "probing")
    /\ []<>(monitor = "sleeping")
    /\ (<>[]storeUp) => <>[](healthState = "SERVING")
    /\ (<>[](~storeUp)) => <>[](healthState = "NOT_SERVING")

\* The worker is probing again after a failed probe, with the status
\* NOT_SERVING.
C19_Witness ==
    /\ monitor = "probing" /\ lastProbe = "failed"
    /\ healthState = "NOT_SERVING" /\ ~storeUp

\* What call c can see: the store, its request, its stream's context, its
\* handler's variables, the calls it has issued and its result.
CallView(c) ==
    <<objectSize, impl, req[c], pc[c], cancelled[c], local[c], storeLog[c],
      sendLog[c], result[c]>>

\* C20: under every interleaving of the Download calls, the worker, the
\* HealthChecks and the changes of the store's reachability, whatever a call
\* sees changes only in steps of that call, each of which is a step the call
\* takes when it runs alone, and the stored object stays as it is: the
\* chunks a call sends and the result it returns are those of a run of that
\* call alone.
C20_NoInterference ==
    [][/\ \A c \in Calls : (CallView(c)' # CallView(c)) => StepOf(c)
       /\ objectSize' = objectSize
      ]_vars

\* One call has sent both chunks of the object and returned nil, the other
\* has failed in its second fetch, and a probe of the worker has failed.
C20_Witness ==
    \E c, d \in Calls :
        /\ Done(c) /\ result[c] = NoError /\ Len(Sent(c)) = 2
        /\ Done(d) /\ IsError(result[d]) /\ Len(Gets(d)) = 2
        /\ Gets(d)[2].state = "failed"
        /\ lastProbe = "failed"

\* C21: a Read with a buffer shorter than PartSize calls Recv not at all,
\* returns 0 and an error and leaves the stream where it was; and a Read
\* with a buffer of PartSize or more, while chunks are left, receives the
\* chunk after the last one received, however many short Reads came before.
C21_NoRecvOnShortBuffer ==
    [][(reader'.reads = reader.reads + 1)
       => /\ (lastRead'.len < PartSize)
             => /\ lastRead'.n = 0 /\ lastRead'.err # Nil /\ ~lastRead'.recv
                /\ lastRead'.p = NoBytes
                /\ reader'.pos = reader.pos
                /\ reader'.recvs = reader.recvs
                /\ reader'.got = reader.got
          /\ (lastRead'.len >= PartSize /\ reader.pos < Len(inbox.chunks))
             => /\ lastRead'.recv /\ reader'.pos = reader.pos + 1
                /\ lastRead'.p = inbox.chunks[reader.pos + 1]
                /\ reader'.recvs = reader.recvs + 1
      ]_vars

\* After two Reads with short buffers the third Read, with a buffer of
\* PartSize, has received the first chunk of the stream.
C21_Witness ==
    /\ reader.reads = 3 /\ reader.recvs = 1 /\ reader.pos = 1
    /\ lastRead.len = PartSize /\ lastRead.n = PartSize
    /\ lastRead.p = inbox.chunks[1]

\* C22: Read returns the value ErrBufferLength exactly when the buffer is at
\* most PartSize long, a buffer of exactly PartSize included.
C22_ErrBufferLength ==
    (lastRead # NoRead)
    => ((lastRead.len <= PartSize) <=> (lastRead.err = ErrBufferLength))

\* The error of call c is the client's doing: a request without key or
\* bucket, or an object that is not there.
ClientCaused(c) ==
    req[c].key = "" \/ req[c].bucket = "" \/ result[c].cause = "NotFound"

\* C23: when a Download call has completed, its outcome has been logged, at
\* level info when it returned nil, at level warning when its error is the
\* client's doing and at level error otherwise.
C23_OutcomeLevel ==
    \A c \in Calls :
        (ipc[c] = "done")
        => \E l \in lines[c] :
              /\ l.line = "outcome"
              /\ l.level = IF result[c] = NoError THEN "info"
                           ELSE IF ClientCaused(c) THEN "warning"
                           ELSE "error"

\* C24: the message size the server is built with is at least the size of a
\* message of PartSize bytes with its encoding's overhead, and every chunk
\* message Download sends carries at most PartSize bytes and is no larger
\* than the configured size.
C24_ChunkFitsCeiling ==
    /\ MaxRecvMsgSize >= EncodedSize(PartSize)
    /\ EncodedSize(PartSize) > PartSize
    /\ \A c \in Calls :
          \A k \in 1..Len(sendLog[c]) :
              /\ RunLen(sendLog[c][k].file) <= PartSize
              /\ EncodedSize(RunLen(sendLog[c][k].file)) <= MaxRecvMsgSize

\* A chunk of exactly PartSize bytes was sent, of an object of several parts.
C24_Witness ==
    \E c \in Calls :
        /\ objectSize > PartSize
        /\ \E k \in 1..Len(sendLog[c]) :
              /\ sendLog[c][k].state = "ok"
              /\ RunLen(sendLog[c][k].file) = PartSize

\* C25: every range requested of an object of S >= 1 bytes ends at byte
\* S - 1 at the latest, and the range of the final part ends at S - 1
\* exactly, whatever S modulo PartSize is.
C25_RangeEndClamped ==
    \A c \in Calls :
        \A k \in 1..Len(Gets(c)) :
            ((objectSize >= 1) =>
                 /\ Gets(c)[k].rangeEnd <= objectSize - 1
                 /\ (Gets(c)[k].part = CeilDiv(objectSize) - 1
                        => Gets(c)[k].rangeEnd = objectSize - 1))

\* C26: the ranges a Download that returned nil has requested are
\* ceil(S / PartSize) ranges, the i-th starting at i * PartSize, each
\* starting where the one before ended, the first at 0 and the last ending
\* at S - 1, and all but the last are PartSize bytes long.
C26_PartPlan ==
    \A c \in Calls :
        (Done(c) /\ result[c] = NoError)
        => LET gets == Gets(c)
               n == Len(gets)
           IN  /\ n = CeilDiv(objectSize)
               /\ \A k \in 1..n :
                     /\ gets[k].rangeStart = (k - 1) * PartSize
                     /\ gets[k].rangeStart <= gets[k].rangeEnd
                     /\ (k < n =>
                            /\ gets[k + 1].rangeStart = gets[k].rangeEnd + 1
                            /\ gets[k].rangeEnd - gets[k].rangeStart + 1 = PartSize)
                     /\ (k = n =>
                            /\ gets[k].rangeEnd = objectSize - 1
                            /\ gets[k].rangeEnd - gets[k].rangeStart + 1 <= PartSize)

\* The calls of HeadObject call c has issued.
Heads(c) == SelectSeq(storeLog[c], LAMBDA e : e.op = "HeadObject")

\* C27: a call that has passed validation has issued exactly one HeadObject,
\* as its first store call, which has returned before any GetObject is
\* issued; the size it returned is the one the number of parts and every
\* range of the call are computed from.
C27_OneProbe ==
    \A c \in Calls :
        /\ (pc[c] # "start" /\ req[c].key # "" /\ req[c].bucket # "")
           => /\ Len(Heads(c)) = 1
              /\ storeLog[c][1].op = "HeadObject"
        /\ (Len(Gets(c)) > 0)
           => /\ storeLog[c][1].state = "ok"
              /\ local[c].totalSize = objectSize
              /\ local[c].totalParts = TotalParts(local[c].totalSize)
              /\ \A k \in 1..Len(Gets(c)) :
                    /\ Gets(c)[k].rangeStart = RangeStart(Gets(c)[k].part)
                    /\ Gets(c)[k].rangeEnd =
                          RangeEnd(Gets(c)[k].rangeStart, local[c].totalSize)

\* The second part of an object has been fetched after the one HeadObject.
C27_Witness ==
    \E c \in Calls :
        /\ Len(Heads(c)) = 1
        /\ Len(Gets(c)) = 2
        /\ Gets(c)[2].state = "ok"

\* C28: a call holds the bytes of at most one part, never more than
\* PartSize of them: while a part is drained and sent its bytes are the only
\* ones held, and none are held when the next part is asked for and fetched.
C28_OnePartInMemory ==
    \A c \in Calls :
        /\ RunLen(local[c].partBytes) <= PartSize
        /\ RunLen(local[c].body) <= PartSize
        /\ (local[c].partBytes = NoBytes \/ local[c].body = NoBytes)
        /\ (pc[c] \in {"start", "head", "loop", "fetch"})
           => (local[c].partBytes = NoBytes /\ local[c].body = NoBytes)
        /\ (pc[c] = "drain") => (local[c].partBytes = NoBytes)

\* The second part of an object of more than two parts is being fetched
\* after a first chunk of PartSize bytes was sent, and no bytes are held.
C28_Witness ==
    \E c \in Calls :
        /\ objectSize > 2 * PartSize
        /\ pc[c] = "fetch" /\ local[c].currentPart = 1
        /\ RunLen(sendLog[c][1].file) = PartSize
        /\ local[c].partBytes = NoBytes

\* C29: a call whose HeadObject returned details without ContentLength has
\* returned an error with the status code Internal and has sent no chunk,
\* and no call has been ended by a crash of the process.
C29_NoSizeIsInternal ==
    \A c \in Calls :
        (Len(storeLog[c]) >= 1 /\ storeLog[c][1].state = "nosize")
        => /\ Done(c)
           /\ result[c].code = "Internal"
           /\ sendLog[c] = <<>>
           /\ \A d \in Calls : pc[d] # "crashed"
           /\ phase = "serving"

\* No call has been dispatched, no answer given, no store call issued.
NeverServed ==
    /\ \A c \in Calls :
          pc[c] = "start" /\ storeLog[c] = <<>> /\ sendLog[c] = <<>>
    /\ checkReply = NoReply

\* C30: when session.NewSession or net.Listen has failed the process has
\* exited, has never served a Download or a health Check, and its worker is
\* not running; and nothing is served before Serve has the listener.
C30_FailFast ==
    /\ (startErr \in {"session", "listen"})
       => /\ phase = "exited"
          /\ monitor \in {"notStarted", "exited"}
          /\ NeverServed
    /\ (startErr = "session") => (monitor = "notStarted" /\ lastProbe = "none")
    /\ (phase \in {"new", "built"}) => NeverServed

\* net.Listen failed after the worker had completed a probe: the process
\* has exited and the worker with it.
C30_Witness ==
    /\ startErr = "listen"
    /\ lastProbe # "none"
    /\ monitor = "exited"

\* The chunks Recv has handed to Read so far.
Received == [k \in 1..reader.pos |-> [file |-> inbox.chunks[k]]]

\* C31: a Read that has received a chunk has returned the chunk's length
\* with the chunk's bytes in p, so that the bytes read so far are the
\* chunks received so far, one after the other.
C31_ReadReturnsChunk ==
    /\ (lastRead.recv /\ lastRead.err = Nil)
       => /\ lastRead.n = RunLen(inbox.chunks[reader.pos])
          /\ lastRead.p = inbox.chunks[reader.pos]
    /\ reader.got = Concat(Received)

\* C32: a Read with a buffer of PartSize or more, when the stream has no
\* chunk left, calls Recv and returns 0 and the error Recv returned, io.EOF
\* included, with nothing in p; and no Read after the end of the stream
\* yields a byte.
C32_RecvErrorReturned ==
    [][(reader'.reads = reader.reads + 1 /\ reader.pos >= Len(inbox.chunks))
       => /\ lastRead'.n = 0
          /\ lastRead'.p = NoBytes
          /\ reader'.got = reader.got
          /\ reader'.pos = reader.pos
          /\ (lastRead'.len >= PartSize)
             => (lastRead'.recv /\ lastRead'.err = inbox.end)
      ]_vars

\* After the one chunk of the stream, two Reads have returned io.EOF.
C32_Witness ==
    /\ Len(inbox.chunks) = 1 /\ inbox.end = EOF
    /\ reader.reads = 3 /\ reader.recvs = 3
    /\ lastRead.err = EOF /\ lastRead.n = 0
    /\ reader.got = <<inbox.chunks[1]>>

\* C33: when a Download call has returned, with nil or with an error, every
\* body a GetObject of the call returned has been closed.
C33_BodiesClosed ==
    \A c \in Calls : Done(c) => local[c].openBodies = 0

\* C34: every Download call returns, when the calls it waits for return,
\* and has by then issued at most one HeadObject, at most ceil(S / PartSize)
\* GetObject and at most ceil(S / PartSize) stream.Send.
C34_Terminates ==
    /\ [](\A c \in Calls :
             /\ Len(Heads(c)) <= 1
             /\ Len(Gets(c)) <= CeilDiv(objectSize)
             /\ Len(sendLog[c]) <= CeilDiv(objectSize))
    /\ \A c \in Calls : <>Done(c)

\* A call has returned nil for the largest object after as many GetObject
\* and stream.Send as the object has parts.
C34_Witness ==
    \E c \in Calls :
        /\ objectSize = MaxParts * PartSize
        /\ Done(c) /\ result[c] = NoError
        /\ Len(Heads(c)) = 1
        /\ Len(Gets(c)) = MaxParts
        /\ Len(sendLog[c]) = MaxParts

\* C35: for every size int64 can hold and every part of the loop, the range
\* requested is one of the object: 0 <= rangeStart <= rangeEnd, and the
\* number of parts is not negative.
C35_NoOverflow ==
    /\ ~IsNeg64(plan.totalParts)
    /\ (plan.step = "ranged")
       => /\ ~IsNeg64(plan.rangeStart)
          /\ ~Lt64(plan.rangeEnd, plan.rangeStart)

\* The arithmetic on int64 is the arithmetic of the handler for the sizes of
\* Sizes.
Int64Agrees ==
    (plan.step = "ranged" /\ plan.S[3] = 0 /\ plan.S[4] = 0)
    => LET S == plan.S[1] + plan.S[2] * Limb
           i == plan.currentPart[1]
       IN  /\ plan.totalParts = Int64Of(TotalParts(S))
           /\ plan.rangeStart = Int64Of(RangeStart(i))
           /\ plan.rangeEnd = Int64Of(RangeEnd(RangeStart(i), S))

====
